---- MODULE Spec2Model ----
(***************************************************************************)
(* GEMLA: a tournament-bracket genetic-algorithm engine (gemla/src/core)   *)
(* over a file-linked value (file_linked/src/lib.rs).                      *)
(*                                                                         *)
(* Option<X> is modelled as a sequence of length 0 (None) or 1 (Some).     *)
(* A file is a record [exists, data]; data is the sequence of encoded      *)
(* fields that bincode wrote, so an interrupted write leaves a prefix.     *)
(***************************************************************************)
EXTENDS Integers, Sequences, FiniteSets, Bags, TLC

\* ------------------------------------------------------------------ bounds
\* Largest steps argument of one simulate call.
MaxSteps == 2
\* Largest height the tree is grown to.
MaxHeight == 3
\* Largest generations_per_height a configuration is drawn with.
MaxGph == 2

\* ------------------------------------------------------------------ values
None == <<>>

Some(x) == <<x>>

States == <<"Initialize", "Simulate", "Mutate", "Finish">>

\* GemlaConfig { generations_per_height, overwrite }
GemlaConfig(g, o) == [generations_per_height |-> g, overwrite |-> o]

\* GeneticNodeWrapper::default + new: empty wrapper with a fresh id.
GeneticNodeWrapper_new(max_generations, id) ==
    [node |-> None, state |-> "Initialize", generation |-> 1,
     max_generations |-> max_generations, id |-> id]

\* Mutant of GeneticNodeWrapper::from: the data is not stored in the wrapper.
GeneticNodeWrapper_from_none(data, max_generations, id) ==
    [node |-> None, state |-> "Simulate", generation |-> 1,
     max_generations |-> max_generations, id |-> id]

\* Mutant of GeneticNodeWrapper::from: the wrapper starts at generation 0.
GeneticNodeWrapper_from_zero(data, max_generations, id) ==
    [node |-> Some(data), state |-> "Simulate", generation |-> 0,
     max_generations |-> max_generations, id |-> id]

\* GeneticNodeWrapper::from: pre-populated wrapper (used after a merge).
GeneticNodeWrapper_from(data, max_generations, id) ==
    [node |-> Some(data), state |-> "Simulate", generation |-> 1,
     max_generations |-> max_generations, id |-> id]

\* Tree::new
Tree_new(val, left, right) == [val |-> val, left |-> left, right |-> right]

\* The value the engine's store holds: (Option<SimulationTree>, GemlaConfig).
Value(tree, config) == [tree |-> tree, config |-> config]

\* Placeholder for "no store in memory" (the process holds no FileLinked).
NoVal == Value(None, GemlaConfig(0, FALSE))

\* ---------------------------------------------------------- serialization
\* bincode writes the fields in declaration order; an enum as its variant
\* index, an Option as a tag 0/1 followed by the value, a bool as 0/1.
StateIdx(s) == CHOOSE i \in 1..4 : States[i] = s

SerWrapper(n) ==
    (IF n.node = None THEN <<0>> ELSE <<1, n.node[1]>>)
    \o <<StateIdx(n.state) - 1, n.generation, n.max_generations, n.id>>

RECURSIVE SerTree(_)
SerTree(t) ==
    SerWrapper(t.val)
    \o (IF t.left = None THEN <<0>> ELSE <<1>> \o SerTree(t.left[1]))
    \o (IF t.right = None THEN <<0>> ELSE <<1>> \o SerTree(t.right[1]))

\* Mutant of Serialize: the overwrite flag of the configuration is written as 0.
Serialize_noflag(v) ==
    (IF v.tree = None THEN <<0>> ELSE <<1>> \o SerTree(v.tree[1]))
    \o <<v.config.generations_per_height, 0>>

\* bincode::serialize(&self.val)
Serialize(v) ==
    (IF v.tree = None THEN <<0>> ELSE <<1>> \o SerTree(v.tree[1]))
    \o <<v.config.generations_per_height, IF v.config.overwrite THEN 1 ELSE 0>>

DeFail == [ok |-> FALSE, val |-> None, pos |-> 0]

DeOk(v, p) == [ok |-> TRUE, val |-> v, pos |-> p]

\* A tag (an Option's 0/1, a bool) is readable at p.
TagAt(b, p) == p >= 1 /\ p <= Len(b) /\ b[p] \in {0, 1}

\* GeneticNodeWrapper at p: node (Option<T>), state, generation,
\* max_generations, id. Fails on an unknown tag or variant index and at the
\* end of the data (unexpected EOF).
DeWrapper(b, p) ==
    IF ~TagAt(b, p) THEN DeFail
    ELSE IF p + b[p] + 4 > Len(b) THEN DeFail
    ELSE IF b[p + b[p] + 1] \notin 0..3 THEN DeFail
    ELSE DeOk([node |-> IF b[p] = 0 THEN None ELSE Some(b[p + 1]),
               state |-> States[b[p + b[p] + 1] + 1],
               generation |-> b[p + b[p] + 2],
               max_generations |-> b[p + b[p] + 3],
               id |-> b[p + b[p] + 4]], p + b[p] + 5)

DeSome(s) == IF s.ok THEN DeOk(Some(s.val), s.pos) ELSE DeFail

DeTreeEnd(w, l, r) ==
    IF ~r.ok THEN DeFail ELSE DeOk(Tree_new(w.val, l.val, r.val), r.pos)

RECURSIVE DeTree(_, _)
RECURSIVE DeOptTree(_, _)
DeTreeRight(b, w, l) ==
    IF ~l.ok THEN DeFail ELSE DeTreeEnd(w, l, DeOptTree(b, l.pos))

DeTreeLeft(b, w) ==
    IF ~w.ok THEN DeFail ELSE DeTreeRight(b, w, DeOptTree(b, w.pos))

\* Tree at p: val, left, right.
DeTree(b, p) == DeTreeLeft(b, DeWrapper(b, p))

\* Option<Box<Tree>> at p.
DeOptTree(b, p) ==
    IF ~TagAt(b, p) THEN DeFail
    ELSE IF b[p] = 0 THEN DeOk(None, p + 1)
    ELSE DeSome(DeTree(b, p + 1))

DeConfig(b, t) ==
    IF ~t.ok THEN DeFail
    ELSE IF t.pos > Len(b) \/ ~TagAt(b, t.pos + 1) THEN DeFail
    ELSE DeOk(Value(t.val, GemlaConfig(b[t.pos], b[t.pos + 1] = 1)), t.pos + 2)

\* bincode::deserialize_from::<File, T>(file); trailing data is not read.
Deserialize(b) == DeConfig(b, DeOptTree(b, 1))

\* ------------------------------------------------------------------- files
NoFile == [exists |-> FALSE, data |-> <<>>]

File(data) == [exists |-> TRUE, data |-> data]

\* The data an interrupted write of b leaves: nothing, a proper part, or all of b.
Prefixes(b) == {SubSeq(b, 1, k) : k \in {0, Len(b) \div 2, Len(b)}}

\* ------------------------------------------------------- FileLinked store
VARIABLES
    pc,           \* "none": no store/engine in the process; "store": a bare
                  \* FileLinked; "idle": an engine between calls; "loop": in simulate;
                  \* "node": a caller holding one GeneticNodeWrapper
    val,          \* FileLinked.val
    file_thread,  \* FileLinked.file_thread is Some (a handle to the last worker)
    workers,      \* the background writer threads of the process, oldest first
    P,            \* the file at path
    T,            \* the file at temp_file_path
    threads,      \* Gemla.threads: the pending tasks (cloned wrappers, keyed by id)
    ret,          \* the last call and its result
    iter,         \* parity of the number of iterations the loop of simulate has made
    merged,       \* history: the merge calls of the last merge sweep
    expect,       \* history: tree height a successful gated simulate must reach
    wrapper,      \* the GeneticNodeWrapper a caller of process_node holds
    calls,        \* history: the calls of process_node made on wrapper
    failed,       \* history: a simulate call has returned Err
    invoked       \* history: the user callbacks invoked on the nodes of the tree

vars == <<pc, val, file_thread, workers, P, T, threads, ret, iter, merged, expect,
          wrapper, calls, failed, invoked>>

\* The last call and its result. src: the file the result of a load came from
\* (the value, or the error reported); want: the value the call was to leave in
\* memory (NoVal: not recorded); node: the id of the node whose task returned
\* the Err that simulate returns (0: none); hist: "killed" after the process
\* was killed inside simulate with the file written before, "recovered" once
\* an engine has then been loaded from the path, "rerun" during the simulate
\* call that follows the load ("none" otherwise).
Ret(op, res) ==
    [op |-> op, res |-> res, src |-> "none", want |-> NoVal, node |-> 0, hist |-> "none"]

\* Placeholders for "no caller holds a wrapper" and its empty history.
NoWrapper == GeneticNodeWrapper_new(0, 0)

\* The history of the calls of process_node on one wrapper: the wrapper the
\* caller started with, the states the calls returned in order, how often each
\* user callback was invoked, whether a call returned Err, and whether a call
\* panicked.
NoCalls ==
    [start |-> NoWrapper, returned |-> <<>>, initialize |-> 0, simulate |-> 0,
     mutate |-> 0, failed |-> FALSE, panicked |-> FALSE]

\* The history of the user callbacks invoked on the nodes of the tree of an
\* engine: a bag of <<id, callback>>, kept (ok) from the creation of an
\* empty tree for as long as the process is not killed and no call of simulate
\* returns Err.
NoInvoked == [ok |-> FALSE, n |-> EmptyBag]

FreshInvoked == [ok |-> TRUE, n |-> EmptyBag]

\* The writer threads that have not ended (done: returned; panic: a step failed).
Running(ws) == {i \in 1..Len(ws) : ws[i].pc \notin {"done", "panic"}}

Readable(f) == f.exists /\ Deserialize(f.data).ok

\* Mutant of WorkerStep: P is truncated without the copy to T having been made.
WorkerStep_nocopy(w, Pf, Tf) ==
    CASE w.pc = "copy"   -> [w |-> [w EXCEPT !.pc = "create"], P |-> Pf, T |-> Tf]
      [] w.pc = "create" -> [w |-> [w EXCEPT !.pc = "write"], P |-> File(<<>>), T |-> Tf]
      [] w.pc = "write"  -> [w |-> [w EXCEPT !.pc = IF w.temp THEN "remove" ELSE "done"],
                             P |-> File(w.bytes), T |-> Tf]
      [] w.pc = "remove" -> [w |-> [w EXCEPT !.pc = "done"], P |-> Pf, T |-> NoFile]

\* Mutant of WorkerStep: the temp file is not removed at the end.
WorkerStep_keeptemp(w, Pf, Tf) ==
    CASE w.pc = "copy"   -> [w |-> [w EXCEPT !.pc = "create"], P |-> Pf, T |-> File(Pf.data)]
      [] w.pc = "create" -> [w |-> [w EXCEPT !.pc = "write"], P |-> File(<<>>), T |-> Tf]
      [] w.pc = "write"  -> [w |-> [w EXCEPT !.pc = IF w.temp THEN "remove" ELSE "done"],
                             P |-> File(w.bytes), T |-> Tf]
      [] w.pc = "remove" -> [w |-> [w EXCEPT !.pc = "done"], P |-> Pf, T |-> Tf]

\* One step of the closure a writer thread runs: copy P to T, create (truncate) P,
\* write the buffer, remove T; without the copy and the removal when P was absent.
WorkerStep(w, Pf, Tf) ==
    CASE w.pc = "copy"   -> [w |-> [w EXCEPT !.pc = "create"], P |-> Pf, T |-> File(Pf.data)]
      [] w.pc = "create" -> [w |-> [w EXCEPT !.pc = "write"], P |-> File(<<>>), T |-> Tf]
      [] w.pc = "write"  -> [w |-> [w EXCEPT !.pc = IF w.temp THEN "remove" ELSE "done"],
                             P |-> File(w.bytes), T |-> Tf]
      [] w.pc = "remove" -> [w |-> [w EXCEPT !.pc = "done"], P |-> Pf, T |-> NoFile]

\* Mutant of write_data: the previous writer is not joined before the next is spawned.
write_data_nojoin(v, ft, ws, Pf, io) ==
    IF io = "err"
    THEN {[res |-> "err", file_thread |-> FALSE, workers |-> ws]}
    ELSE {[res |-> "ok", file_thread |-> TRUE,
           workers |-> Append(ws,
               [pc |-> IF Pf.exists THEN "copy" ELSE "create", temp |-> Pf.exists,
                bytes |-> Serialize(v), pre |-> Pf, val |-> v])]}

\* write_data: serialize, join the previous writer, test whether P exists, spawn the
\* next writer. The result is the set of outcomes: empty while join() blocks.
\* io = "err": File::open fails with an error other than NotFound.
write_data(v, ft, ws, Pf, io) ==
    IF ft /\ ws[Len(ws)].pc # "done" THEN {}
    ELSE LET joined == IF ft THEN SubSeq(ws, 1, Len(ws) - 1) ELSE ws IN
         IF io = "err"
         THEN {[res |-> "err", file_thread |-> FALSE, workers |-> joined]}
         ELSE {[res |-> "ok", file_thread |-> TRUE,
                workers |-> Append(joined,
                    [pc |-> IF Pf.exists THEN "copy" ELSE "create", temp |-> Pf.exists,
                     bytes |-> Serialize(v), pre |-> Pf, val |-> v])]}

\* Mutant of from_temp_file: the temp file is not removed after the recovery.
from_temp_file_keep(Pf, Tf) ==
    IF Readable(Tf)
    THEN [ok |-> TRUE, val |-> Deserialize(Tf.data).val, P |-> File(Tf.data), T |-> Tf,
          src |-> "temp"]
    ELSE [ok |-> FALSE, val |-> NoVal, P |-> Pf, T |-> Tf, src |-> "temp"]

\* from_temp_file: deserialize T, copy T to P, remove T.
from_temp_file(Pf, Tf) ==
    IF Readable(Tf)
    THEN [ok |-> TRUE, val |-> Deserialize(Tf.data).val, P |-> File(Tf.data), T |-> NoFile,
          src |-> "temp"]
    ELSE [ok |-> FALSE, val |-> NoVal, P |-> Pf, T |-> Tf, src |-> "temp"]

\* Mutant of from_file: a failure of the temp file is reported as it is.
from_file_temperr(Pf, Tf) ==
    IF Readable(Pf)
    THEN [ok |-> TRUE, val |-> Deserialize(Pf.data).val, P |-> Pf, T |-> Tf, src |-> "path"]
    ELSE from_temp_file(Pf, Tf)

\* from_file: deserialize P; when that fails try the temp file, and report the
\* error obtained from P when the temp file fails too.
from_file(Pf, Tf) ==
    IF Readable(Pf)
    THEN [ok |-> TRUE, val |-> Deserialize(Pf.data).val, P |-> Pf, T |-> Tf, src |-> "path"]
    ELSE LET t == from_temp_file(Pf, Tf) IN
         IF t.ok THEN t ELSE [t EXCEPT !.src = "path"]

\* The process is killed: what the running writers leave on disk. A writer killed
\* inside copy leaves a prefix of P in T, one killed inside write_all a prefix of
\* its buffer in P; between two steps the files stay as they are.
KillOutcomes(ws, Pf, Tf) ==
    IF Running(ws) = {} THEN {[P |-> Pf, T |-> Tf]}
    ELSE UNION {
        LET w == ws[i] IN
        CASE w.pc = "copy" ->
               {[P |-> Pf, T |-> t] : t \in {Tf} \cup {File(b) : b \in Prefixes(Pf.data)}}
          [] w.pc = "write" ->
               {[P |-> File(b), T |-> Tf] : b \in Prefixes(w.bytes)}
          [] OTHER -> {[P |-> Pf, T |-> Tf]}
        : i \in Running(ws)}

\* A writer thread takes its next step.
WorkerRun ==
    /\ UNCHANGED <<wrapper, calls, failed, invoked>>
    /\ \E i \in Running(workers) :
        LET s == WorkerStep(workers[i], P, T) IN
        /\ workers' = [workers EXCEPT ![i] = s.w]
        /\ P' = s.P
        /\ T' = s.T
        /\ UNCHANGED <<pc, val, file_thread, threads, ret, iter, merged, expect>>

\* The file at the path has been written completely at least once: no writer
\* is at work, or the writer at work found a readable file.
WrittenOnce ==
    \A i \in Running(workers) : Readable(workers[i].pre)

\* The process is killed (any time a store or an engine is alive).
Crash ==
    /\ UNCHANGED <<wrapper, calls, failed>>
    /\ invoked' = NoInvoked
    /\ pc # "none"
    /\ \E k \in KillOutcomes(workers, P, T) :
        /\ P' = k.P
        /\ T' = k.T
    /\ pc' = "none"
    /\ val' = NoVal
    /\ file_thread' = FALSE
    /\ workers' = <<>>
    /\ threads' = {}
    /\ ret' = [Ret("crash", "none") EXCEPT
                  !.hist = IF pc = "loop" /\ WrittenOnce THEN "killed" ELSE "none"]
    /\ iter' = 0
    /\ expect' = -1
    /\ merged' = {}

\* Sample values of a FileLinked<(Option<Tree<..>>, GemlaConfig)>.
Leaf(state, payload) ==
    Tree_new([node |-> payload, state |-> state, generation |-> 1,
              max_generations |-> 1, id |-> 1], None, None)

StoreVals ==
    { Value(None, GemlaConfig(1, FALSE)),
      Value(Some(Leaf("Initialize", None)), GemlaConfig(1, FALSE)),
      Value(Some(Leaf("Finish", Some(1))), GemlaConfig(2, TRUE)) }

\* Sample closures for mutate(op).
MutOps == {"take", "finish"}

ApplyOp(op, v) ==
    IF op = "take" THEN [v EXCEPT !.tree = None]
    ELSE [v EXCEPT !.tree = Some(Leaf("Finish", Some(2)))]

IOResults == {"ok", "err"}

\* FileLinked::new(val, path)
FileLinked_new ==
    /\ UNCHANGED <<wrapper, calls, failed, invoked>>
    /\ pc = "none"
    /\ \E v \in StoreVals, io \in IOResults :
        \E o \in write_data(v, FALSE, workers, P, io) :
            /\ ret' = Ret("new", o.res)
            /\ IF o.res = "ok"
               THEN pc' = "store" /\ val' = v /\ file_thread' = o.file_thread
                    /\ workers' = o.workers
               ELSE UNCHANGED <<pc, val, file_thread, workers>>
    /\ UNCHANGED <<P, T, threads, iter, merged, expect>>

\* FileLinked::from_file(path)
FileLinked_from_file ==
    /\ UNCHANGED <<wrapper, calls, failed, invoked>>
    /\ pc = "none"
    /\ LET r == from_file(P, T) IN
        /\ ret' = [Ret("from_file", IF r.ok THEN "ok" ELSE "err") EXCEPT !.src = r.src]
        /\ P' = r.P
        /\ T' = r.T
        /\ IF r.ok
           THEN pc' = "store" /\ val' = r.val
           ELSE UNCHANGED <<pc, val>>
    /\ UNCHANGED <<file_thread, workers, threads, iter, merged, expect>>

\* Mutant of FileLinked_mutate: the value is put back when write_data fails.
FileLinked_mutate_rollback ==
    /\ UNCHANGED <<wrapper, calls, failed, invoked>>
    /\ pc = "store"
    /\ \E op \in MutOps, io \in IOResults :
        \E o \in write_data(ApplyOp(op, val), file_thread, workers, P, io) :
            /\ val' = IF o.res = "ok" THEN ApplyOp(op, val) ELSE val
            /\ file_thread' = o.file_thread
            /\ workers' = o.workers
            /\ ret' = [Ret("mutate", o.res) EXCEPT !.want = ApplyOp(op, val)]
    /\ UNCHANGED <<pc, P, T, threads, iter, merged, expect>>

\* FileLinked::mutate(op): apply op in memory, then write_data.
FileLinked_mutate ==
    /\ UNCHANGED <<wrapper, calls, failed, invoked>>
    /\ pc = "store"
    /\ \E op \in MutOps, io \in IOResults :
        LET v == ApplyOp(op, val) IN
        \E o \in write_data(v, file_thread, workers, P, io) :
            /\ val' = v
            /\ file_thread' = o.file_thread
            /\ workers' = o.workers
            /\ ret' = [Ret("mutate", o.res) EXCEPT !.want = v]
    /\ UNCHANGED <<pc, P, T, threads, iter, merged, expect>>

\* FileLinked::replace(val)
FileLinked_replace ==
    /\ UNCHANGED <<wrapper, calls, failed, invoked>>
    /\ pc = "store"
    /\ \E v \in StoreVals, io \in IOResults :
        \E o \in write_data(v, file_thread, workers, P, io) :
            /\ val' = v
            /\ file_thread' = o.file_thread
            /\ workers' = o.workers
            /\ ret' = [Ret("replace", o.res) EXCEPT !.want = v]
    /\ UNCHANGED <<pc, P, T, threads, iter, merged, expect>>

\* Mutant of join_on_drop: the drop does not wait for the writer.
join_on_drop_nowait(ft, ws) == {IF ft THEN SubSeq(ws, 1, Len(ws) - 1) ELSE ws}

\* Drop for FileLinked: join the writer.
join_on_drop(ft, ws) ==
    IF ft /\ ws[Len(ws)].pc # "done" THEN {}
    ELSE {IF ft THEN SubSeq(ws, 1, Len(ws) - 1) ELSE ws}

FileLinked_drop ==
    /\ UNCHANGED <<wrapper, calls, failed, invoked>>
    /\ pc = "store"
    /\ \E ws \in join_on_drop(file_thread, workers) : workers' = ws
    /\ pc' = "none"
    /\ val' = NoVal
    /\ file_thread' = FALSE
    /\ ret' = Ret("drop", "ok")
    /\ UNCHANGED <<P, T, threads, iter, merged, expect>>

StoreInit ==
    /\ pc = "none"
    /\ val = NoVal
    /\ file_thread = FALSE
    /\ workers = <<>>
    /\ P = NoFile
    /\ T = NoFile
    /\ threads = {}
    /\ ret = Ret("start", "none")
    /\ iter = 0
    /\ merged = {}
    /\ expect = -1
    /\ wrapper = NoWrapper
    /\ calls = NoCalls
    /\ failed = FALSE
    /\ invoked = NoInvoked

StoreNext ==
    \/ FileLinked_new
    \/ FileLinked_from_file
    \/ FileLinked_mutate
    \/ FileLinked_replace
    \/ FileLinked_drop
    \/ WorkerRun
    \/ Crash

StoreSpec == StoreInit /\ [][StoreNext]_vars

\* The store in a process that is never killed.
CrashFreeNext ==
    \/ FileLinked_new
    \/ FileLinked_from_file
    \/ FileLinked_mutate
    \/ FileLinked_replace
    \/ FileLinked_drop
    \/ WorkerRun

CrashFreeSpec == StoreInit /\ [][CrashFreeNext]_vars

\* A filesystem step of a writer thread (copy, File::create, write_all,
\* remove_file) fails: its expect panics and the thread ends.
WorkerFail ==
    /\ UNCHANGED <<wrapper, calls, failed, invoked>>
    /\ \E i \in Running(workers) : workers' = [workers EXCEPT ![i].pc = "panic"]
    /\ UNCHANGED <<pc, val, file_thread, P, T, threads, ret, iter, merged, expect>>

\* mutate, replace or drop joins a writer thread that panicked: join() gives
\* Err and the expect on it panics in the caller, which takes the store along.
FileLinked_join_panic ==
    /\ UNCHANGED <<wrapper, calls, failed, invoked>>
    /\ pc = "store"
    /\ file_thread
    /\ workers[Len(workers)].pc = "panic"
    /\ pc' = "none"
    /\ val' = NoVal
    /\ file_thread' = FALSE
    /\ workers' = SubSeq(workers, 1, Len(workers) - 1)
    /\ ret' = Ret("join", "panic")
    /\ UNCHANGED <<P, T, threads, iter, merged, expect>>

\* The store on a filesystem whose operations can fail.
FaultNext ==
    \/ StoreNext
    \/ WorkerFail
    \/ FileLinked_join_panic

FaultSpec == StoreInit /\ [][FaultNext]_vars

\* ------------------------------------------------------------ engine: tree
Max(a, b) == IF a >= b THEN a ELSE b

\* Tree::height: longest root-to-leaf path, a leaf counting 1.
RECURSIVE height(_)
height(t) ==
    1 + Max(IF t.left = None THEN 0 ELSE height(t.left[1]),
            IF t.right = None THEN 0 ELSE height(t.right[1]))

HeightOpt(tree) == IF tree = None THEN 0 ELSE height(tree[1])

\* All wrappers of a tree.
RECURSIVE Nodes(_)
Nodes(t) ==
    {t.val} \cup (IF t.left = None THEN {} ELSE Nodes(t.left[1]))
            \cup (IF t.right = None THEN {} ELSE Nodes(t.right[1]))

NodesOpt(tree) == IF tree = None THEN {} ELSE Nodes(tree[1])

\* All subtrees of a tree (the tree itself included).
RECURSIVE Subtrees(_)
Subtrees(t) ==
    {t} \cup (IF t.left = None THEN {} ELSE Subtrees(t.left[1]))
        \cup (IF t.right = None THEN {} ELSE Subtrees(t.right[1]))

SubtreesOpt(tree) == IF tree = None THEN {} ELSE Subtrees(tree[1])

\* ------------------------------------------------- user callbacks (TestState)
\* TestState { score }: initialize gives 0, simulate adds 1, mutate changes
\* nothing, merge keeps the larger score.
initialize == 0

simulate(score) == score + 1

mutate(score) == score

merge(left, right) == IF left > right THEN left ELSE right

\* Mutant of process_node: a node finishes one generation late.
process_node_late(n, fail) ==
    CASE n.state = "Initialize" ->
           IF fail THEN [res |-> "err", node |-> n]
           ELSE [res |-> "ok", node |-> [n EXCEPT !.node = Some(initialize), !.state = "Simulate"]]
      [] n.state = "Simulate" /\ n.node # None ->
           IF fail THEN [res |-> "err", node |-> n]
           ELSE [res |-> "ok",
                 node |-> [n EXCEPT !.node = Some(simulate(n.node[1])),
                                    !.state = IF n.generation > n.max_generations
                                              THEN "Finish" ELSE "Mutate"]]
      [] n.state = "Mutate" /\ n.node # None ->
           IF fail THEN [res |-> "err", node |-> n]
           ELSE [res |-> "ok",
                 node |-> [n EXCEPT !.node = Some(mutate(n.node[1])),
                                    !.generation = n.generation + 1,
                                    !.state = "Simulate"]]
      [] n.state = "Finish" /\ n.node # None -> [res |-> "ok", node |-> n]
      [] OTHER -> [res |-> "panic", node |-> n]

\* Mutant of process_node: a call on a finished node counts a generation.
process_node_recount(n, fail) ==
    CASE n.state = "Initialize" ->
           IF fail THEN [res |-> "err", node |-> n]
           ELSE [res |-> "ok", node |-> [n EXCEPT !.node = Some(initialize), !.state = "Simulate"]]
      [] n.state = "Simulate" /\ n.node # None ->
           IF fail THEN [res |-> "err", node |-> n]
           ELSE [res |-> "ok",
                 node |-> [n EXCEPT !.node = Some(simulate(n.node[1])),
                                    !.state = IF n.generation >= n.max_generations
                                              THEN "Finish" ELSE "Mutate"]]
      [] n.state = "Mutate" /\ n.node # None ->
           IF fail THEN [res |-> "err", node |-> n]
           ELSE [res |-> "ok",
                 node |-> [n EXCEPT !.node = Some(mutate(n.node[1])),
                                    !.generation = n.generation + 1,
                                    !.state = "Simulate"]]
      [] n.state = "Finish" /\ n.node # None ->
           [res |-> "ok", node |-> [n EXCEPT !.generation = n.generation + 1]]
      [] OTHER -> [res |-> "panic", node |-> n]

\* ------------------------------------------------------------ node lifecycle
\* GeneticNodeWrapper::process_node; fail: the user callback it calls returns Err.
process_node(n, fail) ==
    CASE n.state = "Initialize" ->
           IF fail THEN [res |-> "err", node |-> n]
           ELSE [res |-> "ok", node |-> [n EXCEPT !.node = Some(initialize), !.state = "Simulate"]]
      [] n.state = "Simulate" /\ n.node # None ->
           IF fail THEN [res |-> "err", node |-> n]
           ELSE [res |-> "ok",
                 node |-> [n EXCEPT !.node = Some(simulate(n.node[1])),
                                    !.state = IF n.generation >= n.max_generations
                                              THEN "Finish" ELSE "Mutate"]]
      [] n.state = "Mutate" /\ n.node # None ->
           IF fail THEN [res |-> "err", node |-> n]
           ELSE [res |-> "ok",
                 node |-> [n EXCEPT !.node = Some(mutate(n.node[1])),
                                    !.generation = n.generation + 1,
                                    !.state = "Simulate"]]
      [] n.state = "Finish" /\ n.node # None -> [res |-> "ok", node |-> n]
      [] OTHER -> [res |-> "panic", node |-> n]

\* Gemla::process_node: the task spawned for a cloned wrapper.
Gemla_process_node(node, fail) == process_node(node, fail)

\* ------------------------------------------------- node lifecycle: one wrapper
MaxGen == 3

MaxCalls == 8

\* The wrappers a caller can hold: made by new, made by from, or deserialized
\* (the derived Deserialize accepts every combination of the fields).
NodeInputs ==
    {GeneticNodeWrapper_new(m, 1) : m \in 0..MaxGen}
    \cup {GeneticNodeWrapper_from(d, m, 1) : d \in 0..1, m \in 0..MaxGen}
    \cup [node : {None, Some(0), Some(1)}, state : {States[i] : i \in 1..Len(States)},
          generation : 0..MaxGen, max_generations : 0..MaxGen, id : {1}]

\* The user callback a call of process_node on n invokes.
Callback(n) ==
    CASE n.state = "Initialize" -> "initialize"
      [] n.state = "Simulate" /\ n.node # None -> "simulate"
      [] n.state = "Mutate" /\ n.node # None -> "mutate"
      [] OTHER -> "none"

\* A caller calls process_node on the wrapper it holds; the Ok value is the
\* state of the wrapper after the call. A panic ends the caller.
GeneticNodeWrapper_process_node ==
    /\ pc = "node"
    /\ ~calls.panicked
    /\ Len(calls.returned) < MaxCalls
    /\ \E fail \in BOOLEAN :
        \E r \in {process_node(wrapper, fail)} :
            /\ wrapper' = r.node
            /\ calls' = [calls EXCEPT
                   !.returned = Append(@, IF r.res = "ok" THEN r.node.state ELSE r.res),
                   !.initialize = @ + (IF Callback(wrapper) = "initialize" THEN 1 ELSE 0),
                   !.simulate = @ + (IF Callback(wrapper) = "simulate" THEN 1 ELSE 0),
                   !.mutate = @ + (IF Callback(wrapper) = "mutate" THEN 1 ELSE 0),
                   !.failed = @ \/ r.res = "err",
                   !.panicked = r.res = "panic"]
            /\ ret' = Ret("process_node", r.res)
    /\ UNCHANGED <<pc, val, file_thread, workers, P, T, threads, iter, merged, expect,
                   failed, invoked>>

NodeInit ==
    /\ pc = "node"
    /\ val = NoVal
    /\ file_thread = FALSE
    /\ workers = <<>>
    /\ P = NoFile
    /\ T = NoFile
    /\ threads = {}
    /\ ret = Ret("start", "none")
    /\ iter = 0
    /\ merged = {}
    /\ expect = -1
    /\ wrapper \in NodeInputs
    /\ calls = [NoCalls EXCEPT !.start = wrapper]
    /\ failed = FALSE
    /\ invoked = NoInvoked

NodeNext == GeneticNodeWrapper_process_node

NodeSpec == NodeInit /\ [][NodeNext]_vars

\* ------------------------------------------------------------------ engine
\* Mutant of is_completed: every tree counts as completed.
is_completed_always(t) == TRUE

\* Gemla::is_completed
is_completed(t) == t.val.state = "Finish"

contains_key(th, id) == \E n \in th : n.id = id

\* HashMap::insert
insert(th, node) == {n \in th : n.id # node.id} \cup {node}

\* Mutant of get_unprocessed_node: a node is taken without looking at its children.
get_unprocessed_node_eager(th, t) ==
    IF t.val.state # "Finish" /\ ~contains_key(th, t.val.id) THEN Some(t.val) ELSE None

\* Mutant of get_unprocessed_node: a node is taken without looking at its
\* children, and the search goes on below a node that is pending.
RECURSIVE get_unprocessed_node_below(_, _)
get_unprocessed_node_below(th, t) ==
    IF t.val.state = "Finish" THEN None
    ELSE IF ~contains_key(th, t.val.id) THEN Some(t.val)
    ELSE LET l == IF t.left = None THEN None ELSE get_unprocessed_node_below(th, t.left[1]) IN
         IF l # None THEN l
         ELSE IF t.right = None THEN None ELSE get_unprocessed_node_below(th, t.right[1])

\* Mutant of get_unprocessed_node: the right subtree is not searched.
RECURSIVE get_unprocessed_node_leftonly(_, _)
get_unprocessed_node_leftonly(th, t) ==
    IF t.val.state # "Finish" /\ ~contains_key(th, t.val.id)
    THEN CASE t.left # None /\ t.right # None ->
                IF t.left[1].val.state = "Finish" /\ t.right[1].val.state = "Finish"
                THEN Some(t.val)
                ELSE get_unprocessed_node_leftonly(th, t.left[1])
           [] t.left # None /\ t.right = None -> get_unprocessed_node_leftonly(th, t.left[1])
           [] t.left = None /\ t.right # None -> get_unprocessed_node_leftonly(th, t.right[1])
           [] OTHER -> Some(t.val)
    ELSE None

\* Gemla::get_unprocessed_node: depth first, left before right.
RECURSIVE get_unprocessed_node(_, _)
get_unprocessed_node(th, t) ==
    IF t.val.state # "Finish" /\ ~contains_key(th, t.val.id)
    THEN CASE t.left # None /\ t.right # None ->
                IF t.left[1].val.state = "Finish" /\ t.right[1].val.state = "Finish"
                THEN Some(t.val)
                ELSE LET l == get_unprocessed_node(th, t.left[1]) IN
                     IF l # None THEN l ELSE get_unprocessed_node(th, t.right[1])
           [] t.left # None /\ t.right = None -> get_unprocessed_node(th, t.left[1])
           [] t.left = None /\ t.right # None -> get_unprocessed_node(th, t.right[1])
           [] OTHER -> Some(t.val)
    ELSE None

\* Vec::remove(i)
RemoveAt(s, i) == SubSeq(s, 1, i - 1) \o SubSeq(s, i + 1, Len(s))

\* Mutant of replace_nodes: the ids are not compared.
RECURSIVE replace_nodes_first(_, _)
replace_nodes_first(t, nodes) ==
    LET hits == {i \in 1..Len(nodes) : TRUE}
        i == IF hits = {} THEN 0 ELSE CHOOSE j \in hits : \A k \in hits : j <= k
        v == IF i = 0 THEN t.val ELSE nodes[i]
        rest == IF i = 0 THEN nodes ELSE RemoveAt(nodes, i)
    IN  CASE t.left # None /\ t.right # None ->
               LET l == replace_nodes_first(t.left[1], rest)
                   r == replace_nodes_first(t.right[1], l.nodes)
               IN [tree |-> Tree_new(v, Some(l.tree), Some(r.tree)), nodes |-> r.nodes]
          [] t.left # None /\ t.right = None ->
               LET l == replace_nodes_first(t.left[1], rest)
               IN [tree |-> Tree_new(v, Some(l.tree), None), nodes |-> l.nodes]
          [] t.left = None /\ t.right # None ->
               LET r == replace_nodes_first(t.right[1], rest)
               IN [tree |-> Tree_new(v, None, Some(r.tree)), nodes |-> r.nodes]
          [] OTHER -> [tree |-> Tree_new(v, None, None), nodes |-> rest]

\* Gemla::replace_nodes: gives the tree and the nodes that were not found.
RECURSIVE replace_nodes(_, _)
replace_nodes(t, nodes) ==
    LET hits == {i \in 1..Len(nodes) : nodes[i].id = t.val.id}
        i == IF hits = {} THEN 0 ELSE CHOOSE j \in hits : \A k \in hits : j <= k
        v == IF i = 0 THEN t.val ELSE nodes[i]
        rest == IF i = 0 THEN nodes ELSE RemoveAt(nodes, i)
    IN  CASE t.left # None /\ t.right # None ->
               LET l == replace_nodes(t.left[1], rest)
                   r == replace_nodes(t.right[1], l.nodes)
               IN [tree |-> Tree_new(v, Some(l.tree), Some(r.tree)), nodes |-> r.nodes]
          [] t.left # None /\ t.right = None ->
               LET l == replace_nodes(t.left[1], rest)
               IN [tree |-> Tree_new(v, Some(l.tree), None), nodes |-> l.nodes]
          [] t.left = None /\ t.right # None ->
               LET r == replace_nodes(t.right[1], rest)
               IN [tree |-> Tree_new(v, None, Some(r.tree)), nodes |-> r.nodes]
          [] OTHER -> [tree |-> Tree_new(v, None, None), nodes |-> rest]

\* What one call of the user's merge saw: the parent and its two children.
MergeCall(t) ==
    [id |-> t.val.id, parent |-> t.val.state,
     left |-> IF t.left = None THEN "absent" ELSE t.left[1].val.state,
     right |-> IF t.right = None THEN "absent" ELSE t.right[1].val.state,
     lsome |-> t.left # None /\ t.left[1].val.node # None,
     rsome |-> t.right # None /\ t.right[1].val.node # None]

\* Mutant of merge_completed_nodes: two children are merged as soon as the left
\* one is finished.
RECURSIVE merge_completed_nodes_left(_, _)
merge_completed_nodes_left(t, mfail) ==
    IF t.val.state # "Initialize" THEN [tree |-> t, ok |-> TRUE, calls |-> {}]
    ELSE IF t.left # None /\ t.right # None
    THEN IF t.left[1].val.state = "Finish"
         THEN IF t.left[1].val.node # None /\ t.right[1].val.node # None
              THEN [tree |-> [t EXCEPT !.val = GeneticNodeWrapper_from(
                                 merge(t.left[1].val.node[1], t.right[1].val.node[1]),
                                 t.val.max_generations, t.val.id)],
                    ok |-> TRUE, calls |-> {MergeCall(t)}]
              ELSE [tree |-> t, ok |-> TRUE, calls |-> {}]
         ELSE [tree |-> [t EXCEPT
                   !.left = Some(merge_completed_nodes_left(t.left[1], mfail).tree),
                   !.right = Some(merge_completed_nodes_left(t.right[1], mfail).tree)],
               ok |-> TRUE,
               calls |-> merge_completed_nodes_left(t.left[1], mfail).calls
                         \cup merge_completed_nodes_left(t.right[1], mfail).calls]
    ELSE [tree |-> t, ok |-> TRUE, calls |-> {}]

\* Mutant of merge_completed_nodes: the parent's state is not looked at.
RECURSIVE merge_completed_nodes_any(_, _)
merge_completed_nodes_any(t, mfail) ==
    IF t.left # None /\ t.right # None
    THEN IF t.left[1].val.state = "Finish" /\ t.right[1].val.state = "Finish"
         THEN IF t.left[1].val.node # None /\ t.right[1].val.node # None
              THEN [tree |-> [t EXCEPT !.val = GeneticNodeWrapper_from(
                                 merge(t.left[1].val.node[1], t.right[1].val.node[1]),
                                 t.val.max_generations, t.val.id)],
                    ok |-> TRUE, calls |-> {MergeCall(t)}]
              ELSE [tree |-> t, ok |-> TRUE, calls |-> {}]
         ELSE [tree |-> [t EXCEPT
                   !.left = Some(merge_completed_nodes_any(t.left[1], mfail).tree),
                   !.right = Some(merge_completed_nodes_any(t.right[1], mfail).tree)],
               ok |-> TRUE,
               calls |-> merge_completed_nodes_any(t.left[1], mfail).calls
                         \cup merge_completed_nodes_any(t.right[1], mfail).calls]
    ELSE [tree |-> t, ok |-> TRUE, calls |-> {}]

\* Gemla::merge_completed_nodes, changing the tree in place; mfail is the id of
\* the parent whose merge call returns Err (0: none). Gives the tree as left
\* behind, whether Ok(()) was returned, and the merge calls made.
RECURSIVE merge_completed_nodes(_, _)
merge_completed_nodes(t, mfail) ==
    IF t.val.state # "Initialize" THEN [tree |-> t, ok |-> TRUE, calls |-> {}]
    ELSE
    CASE t.left # None /\ t.right # None ->
           LET l == t.left[1]
               r == t.right[1] IN
           IF l.val.state = "Finish" /\ r.val.state = "Finish"
           THEN IF l.val.node # None /\ r.val.node # None
                THEN IF mfail = t.val.id
                     THEN [tree |-> t, ok |-> FALSE, calls |-> {MergeCall(t)}]
                     ELSE [tree |-> [t EXCEPT !.val = GeneticNodeWrapper_from(
                                        merge(l.val.node[1], r.val.node[1]),
                                        t.val.max_generations, t.val.id)],
                           ok |-> TRUE, calls |-> {MergeCall(t)}]
                ELSE [tree |-> t, ok |-> TRUE, calls |-> {}]
           ELSE LET ml == merge_completed_nodes(l, mfail) IN
                IF ~ml.ok
                THEN [tree |-> [t EXCEPT !.left = Some(ml.tree)], ok |-> FALSE,
                      calls |-> ml.calls]
                ELSE LET mr == merge_completed_nodes(r, mfail) IN
                     [tree |-> [t EXCEPT !.left = Some(ml.tree), !.right = Some(mr.tree)],
                      ok |-> mr.ok, calls |-> ml.calls \cup mr.calls]
      [] t.left # None /\ t.right = None ->
           \* the wrapper built from a finished only-left child is not stored
           IF t.left[1].val.state = "Finish"
           THEN [tree |-> t, ok |-> TRUE, calls |-> {}]
           ELSE LET ml == merge_completed_nodes(t.left[1], mfail) IN
                [tree |-> [t EXCEPT !.left = Some(ml.tree)], ok |-> ml.ok, calls |-> ml.calls]
      [] t.left = None /\ t.right # None ->
           LET r == t.right[1] IN
           IF r.val.state = "Finish"
           THEN [tree |-> IF r.val.node # None
                          THEN [t EXCEPT !.val = GeneticNodeWrapper_from(
                                    r.val.node[1], t.val.max_generations, t.val.id)]
                          ELSE t,
                 ok |-> TRUE, calls |-> {}]
           ELSE LET mr == merge_completed_nodes(r, mfail) IN
                [tree |-> [t EXCEPT !.right = Some(mr.tree)], ok |-> mr.ok, calls |-> mr.calls]
      [] OTHER -> [tree |-> t, ok |-> TRUE, calls |-> {}]

\* Uuid::new_v4 draws an id that no node has. Ids are only compared for
\* equality, and only between the nodes of the tree in memory and the pending
\* tasks cloned from it, so the model draws the least integer that no node of
\* that tree has.
new_v4(used) == CHOOSE i \in 1..(Cardinality(used) + 1) :
                    i \notin used /\ \A j \in 1..(i - 1) : j \in used

\* Mutant of increase_height: one level is added whatever the amount.
increase_height_one(tree, config, amount, used) ==
    IF HeightOpt(tree) > 0
    THEN [tree |-> Some(Tree_new(
                 GeneticNodeWrapper_new(config.generations_per_height, new_v4(used)), tree,
                 Some(Tree_new(GeneticNodeWrapper_new(
                     HeightOpt(tree) * config.generations_per_height,
                     new_v4(used \cup {new_v4(used)})), None, None)))),
          used |-> used \cup {new_v4(used), new_v4(used \cup {new_v4(used)})}]
    ELSE [tree |-> Some(Tree_new(
                 GeneticNodeWrapper_new(config.generations_per_height, new_v4(used)),
                 tree, None)),
          used |-> used \cup {new_v4(used)}]

\* Mutant of increase_height: the root found is put back to Initialize before
\* the levels are added above it.
RECURSIVE increase_height_reset(_, _, _, _)
increase_height_reset(tree, config, amount, used) ==
    IF amount = 0
    THEN [tree |-> IF tree = None THEN None
                   ELSE Some([tree[1] EXCEPT !.val.state = "Initialize"]),
          used |-> used]
    ELSE IF HeightOpt(tree) + amount - 1 > 0
    THEN [tree |-> Some(Tree_new(
                 GeneticNodeWrapper_new(config.generations_per_height, new_v4(used)),
                 increase_height_reset(tree, config, amount - 1,
                                       used \cup {new_v4(used)}).tree,
                 Some(Tree_new(GeneticNodeWrapper_new(
                     (HeightOpt(tree) + amount - 1) * config.generations_per_height,
                     new_v4(increase_height_reset(tree, config, amount - 1,
                                                  used \cup {new_v4(used)}).used)),
                     None, None)))),
          used |-> increase_height_reset(tree, config, amount - 1,
                                         used \cup {new_v4(used)}).used
                   \cup {new_v4(increase_height_reset(tree, config, amount - 1,
                                                      used \cup {new_v4(used)}).used)}]
    ELSE [tree |-> Some(Tree_new(
                 GeneticNodeWrapper_new(config.generations_per_height, new_v4(used)),
                 None, None)),
          used |-> used \cup {new_v4(used)}]

\* Mutant of increase_height: every new right child gets the generations of
\* one level.
RECURSIVE increase_height_flat(_, _, _, _)
increase_height_flat(tree, config, amount, used) ==
    IF amount = 0 THEN [tree |-> tree, used |-> used]
    ELSE LET left_branch_height == HeightOpt(tree) + amount - 1
             root == GeneticNodeWrapper_new(config.generations_per_height, new_v4(used))
             sub == increase_height_flat(tree, config, amount - 1, used \cup {root.id})
         IN  IF left_branch_height > 0
             THEN [tree |-> Some(Tree_new(root, sub.tree,
                        Some(Tree_new(GeneticNodeWrapper_new(
                            config.generations_per_height,
                            new_v4(sub.used)), None, None)))),
                   used |-> sub.used \cup {new_v4(sub.used)}]
             ELSE [tree |-> Some(Tree_new(root, sub.tree, None)), used |-> sub.used]

\* Mutant of increase_height: the right child is a tree grown to the height
\* of the left branch.
RECURSIVE increase_height_deep(_, _, _, _)
increase_height_deep(tree, config, amount, used) ==
    IF amount = 0 THEN [tree |-> tree, used |-> used]
    ELSE LET left_branch_height == HeightOpt(tree) + amount - 1
             root == GeneticNodeWrapper_new(config.generations_per_height, new_v4(used))
             sub == increase_height_deep(tree, config, amount - 1, used \cup {root.id})
             right == increase_height_deep(None, config, left_branch_height, sub.used)
         IN  [tree |-> Some(Tree_new(root, sub.tree, right.tree)), used |-> right.used]

\* Mutant of increase_height: the right child is added one level later.
RECURSIVE increase_height_late(_, _, _, _)
increase_height_late(tree, config, amount, used) ==
    IF amount = 0 THEN [tree |-> tree, used |-> used]
    ELSE LET left_branch_height == HeightOpt(tree) + amount - 1
             root == GeneticNodeWrapper_new(config.generations_per_height, new_v4(used))
             sub == increase_height_late(tree, config, amount - 1, used \cup {root.id})
         IN  IF left_branch_height > 1
             THEN [tree |-> Some(Tree_new(root, sub.tree,
                        Some(Tree_new(GeneticNodeWrapper_new(
                            left_branch_height * config.generations_per_height,
                            new_v4(sub.used)), None, None)))),
                   used |-> sub.used \cup {new_v4(sub.used)}]
             ELSE [tree |-> Some(Tree_new(root, sub.tree, None)), used |-> sub.used]

\* Gemla::increase_height; used is the set of ids in use.
RECURSIVE increase_height(_, _, _, _)
increase_height(tree, config, amount, used) ==
    IF amount = 0 THEN [tree |-> tree, used |-> used]
    ELSE LET left_branch_height == HeightOpt(tree) + amount - 1
             root == GeneticNodeWrapper_new(config.generations_per_height, new_v4(used))
             sub == increase_height(tree, config, amount - 1, used \cup {root.id})
         IN  IF left_branch_height > 0
             THEN [tree |-> Some(Tree_new(root, sub.tree,
                        Some(Tree_new(GeneticNodeWrapper_new(
                            left_branch_height * config.generations_per_height,
                            new_v4(sub.used)), None, None)))),
                   used |-> sub.used \cup {new_v4(sub.used)}]
             ELSE [tree |-> Some(Tree_new(root, sub.tree, None)), used |-> sub.used]

\* ------------------------------------------------------------ engine: calls
\* The orders in which the results of the pending tasks can be collected
\* (HashMap iteration order).
Orders(S) ==
    {o \in [1..Cardinality(S) -> S] : \A i, j \in 1..Cardinality(S) : i # j => o[i] # o[j]}

\* Mutant of Gemla::new: an existing file is overwritten whatever the config says.
Gemla_new_noload ==
    /\ UNCHANGED <<wrapper, calls>>
    /\ pc = "none"
    /\ \E g \in 1..MaxGph, ow \in BOOLEAN :
        \E o \in write_data(Value(None, GemlaConfig(g, ow)), FALSE, workers, P, "ok") :
             /\ pc' = "idle"
             /\ val' = Value(None, GemlaConfig(g, ow))
             /\ file_thread' = o.file_thread
             /\ workers' = o.workers
             /\ ret' = [Ret("Gemla_new", "ok") EXCEPT !.want = Value(None, GemlaConfig(g, ow))]
             /\ expect' = -1
             /\ UNCHANGED <<P, T>>
    /\ threads' = {}
    /\ UNCHANGED <<iter, merged, failed>>
    /\ invoked' = IF ret'.src = "none" /\ ret'.res = "ok" THEN FreshInvoked ELSE invoked

\* Mutant of Gemla_new: the configuration passed to the constructor replaces
\* the one loaded from the file.
Gemla_new_config ==
    /\ UNCHANGED <<wrapper, calls>>
    /\ pc = "none"
    /\ \E g \in 1..MaxGph, ow \in BOOLEAN :
        LET config == GemlaConfig(g, ow) IN
        IF P.exists /\ ~ow
        THEN LET r == from_file(P, T) IN
             /\ P' = r.P
             /\ T' = r.T
             /\ ret' = [Ret("Gemla_new", IF r.ok THEN "ok" ELSE "err")
                          EXCEPT !.src = r.src, !.want = Value(None, config),
                                 !.hist = IF r.ok /\ ret.hist = "killed"
                                          THEN "recovered" ELSE "none"]
             /\ IF r.ok
                THEN pc' = "idle" /\ val' = [r.val EXCEPT !.config = config]
                ELSE UNCHANGED <<pc, val>>
             /\ UNCHANGED <<file_thread, workers, expect>>
        ELSE \E o \in write_data(Value(None, config), FALSE, workers, P, "ok") :
             /\ pc' = "idle"
             /\ val' = Value(None, config)
             /\ file_thread' = o.file_thread
             /\ workers' = o.workers
             /\ ret' = [Ret("Gemla_new", "ok") EXCEPT !.want = Value(None, config)]
             /\ expect' = -1
             /\ UNCHANGED <<P, T>>
    /\ threads' = {}
    /\ UNCHANGED <<iter, merged, failed>>
    /\ invoked' = IF ret'.src = "none" /\ ret'.res = "ok" THEN FreshInvoked ELSE invoked

\* Gemla::new(path, config)
Gemla_new ==
    /\ UNCHANGED <<wrapper, calls>>
    /\ pc = "none"
    /\ \E g \in 1..MaxGph, ow \in BOOLEAN :
        LET config == GemlaConfig(g, ow) IN
        IF P.exists /\ ~ow
        THEN LET r == from_file(P, T) IN
             /\ P' = r.P
             /\ T' = r.T
             /\ ret' = [Ret("Gemla_new", IF r.ok THEN "ok" ELSE "err")
                          EXCEPT !.src = r.src, !.want = Value(None, config),
                                 !.hist = IF r.ok /\ ret.hist = "killed"
                                          THEN "recovered" ELSE "none"]
             /\ IF r.ok
                THEN pc' = "idle" /\ val' = r.val
                ELSE UNCHANGED <<pc, val>>
             /\ UNCHANGED <<file_thread, workers, expect>>
        ELSE \E o \in write_data(Value(None, config), FALSE, workers, P, "ok") :
             /\ pc' = "idle"
             /\ val' = Value(None, config)
             /\ file_thread' = o.file_thread
             /\ workers' = o.workers
             /\ ret' = [Ret("Gemla_new", "ok") EXCEPT !.want = Value(None, config)]
             /\ expect' = -1
             /\ UNCHANGED <<P, T>>
    /\ threads' = {}
    /\ UNCHANGED <<iter, merged, failed>>
    /\ invoked' = IF ret'.src = "none" /\ ret'.res = "ok" THEN FreshInvoked ELSE invoked

\* The ids of the nodes of a stored value.
IdsOf(v) == {n.id : n \in NodesOpt(v.tree)}

\* Gemla::simulate(steps), up to its loop: grow the tree when it is absent or
\* completed, and persist it.
Gemla_simulate ==
    /\ UNCHANGED <<wrapper, calls, failed, invoked>>
    /\ pc = "idle"
    /\ \E steps \in 0..MaxSteps :
        IF val.tree = None \/ is_completed(val.tree[1])
        THEN LET g == increase_height(val.tree, val.config, steps, IdsOf(val))
                 v == [val EXCEPT !.tree = g.tree] IN
             /\ HeightOpt(val.tree) + steps <= MaxHeight
             /\ \E o \in write_data(v, file_thread, workers, P, "ok") :
                 /\ val' = v
                 /\ file_thread' = o.file_thread
                 /\ workers' = o.workers
             /\ expect' = HeightOpt(val.tree) + steps
        ELSE /\ expect' = -1
             /\ UNCHANGED <<val, file_thread, workers>>
    /\ pc' = "loop"
    /\ ret' = [Ret("simulate", "none") EXCEPT
                  !.hist = IF ret.hist = "recovered" THEN "rerun" ELSE "none"]
    /\ iter' = 0
    /\ UNCHANGED <<P, T, threads, merged>>

\* Mutant of JoinErr: the results of the tasks that returned Ok are put into
\* the tree in memory before the Err is returned.
JoinErr_keep(pfail, results) ==
    /\ threads' = {}
    /\ pc' = "idle"
    /\ ret' = [Ret("simulate", "err") EXCEPT !.node = pfail]
    /\ expect' = -1
    /\ val' = [val EXCEPT !.tree = Some(replace_nodes(val.tree[1],
                   [i \in 1..Len(SelectSeq(results, LAMBDA r : r.res = "ok")) |->
                       SelectSeq(results, LAMBDA r : r.res = "ok")[i].node]).tree)]
    /\ UNCHANGED <<file_thread, workers, P, T, merged>>

\* Mutant of JoinErr: the pending map is not cleared when a task returned Err.
JoinErr_noclear(pfail, results) ==
    /\ pc' = "idle"
    /\ ret' = [Ret("simulate", "err") EXCEPT !.node = pfail]
    /\ expect' = -1
    /\ UNCHANGED <<val, file_thread, workers, P, T, merged, threads>>

\* Gemla::join_threads when a task returned Err (a panic unwinds the same way
\* out of simulate): the pending map is cleared, the results are dropped and
\* the Err leaves simulate; nothing is written back or persisted.
JoinErr(pfail, results) ==
    /\ threads' = {}
    /\ pc' = "idle"
    /\ ret' = [Ret("simulate", "err") EXCEPT !.node = pfail]
    /\ expect' = -1
    /\ UNCHANGED <<val, file_thread, workers, P, T, merged>>

\* Gemla::join_threads, followed by what the loop does with its result:
\* leave the loop (last) or go round again; an Err leaves simulate.
JoinThreads(last) ==
    IF threads = {}
    THEN /\ pc' = IF last THEN "idle" ELSE "loop"
         /\ ret' = IF last THEN Ret("simulate", "ok") ELSE ret
         /\ UNCHANGED <<val, file_thread, workers, P, T, threads,
                        merged, expect>>
    ELSE \E order \in Orders(threads), pfail \in {0} \cup {n.id : n \in threads} :
         \E results \in {[i \in 1..Len(order) |->
                             Gemla_process_node(order[i], order[i].id = pfail)]} :
         IF \E i \in 1..Len(order) : results[i].res # "ok"
         THEN JoinErr(pfail, results)
         ELSE \E rep \in {replace_nodes(val.tree[1],
                                        [i \in 1..Len(order) |-> results[i].node])} :
              \E mfail \in {0} \cup {c.id : c \in merge_completed_nodes(rep.tree, 0).calls} :
              \E m \in {merge_completed_nodes(rep.tree, mfail)} :
                  /\ \E o \in write_data([val EXCEPT !.tree = Some(m.tree)],
                                         file_thread, workers, P, "ok") :
                      /\ val' = [val EXCEPT !.tree = Some(m.tree)]
                      /\ file_thread' = o.file_thread
                      /\ workers' = o.workers
                  /\ threads' = {}
                  /\ merged' = m.calls
                  /\ pc' = IF last \/ ~m.ok THEN "idle" ELSE "loop"
                  /\ ret' = IF ~m.ok THEN Ret("simulate", "err")
                            ELSE IF last THEN Ret("simulate", "ok") ELSE ret
                  /\ expect' = IF m.ok THEN expect ELSE -1
                  /\ UNCHANGED <<P, T>>

\* The callbacks a join invokes: process_node's callback for every pending
\* task (join_all runs them all), then the merge calls of the sweep.
JoinInvoked ==
    invoked' = IF ~invoked.ok \/ (pc' = "idle" /\ ret'.res = "err") THEN NoInvoked
               ELSE IF threads = {} THEN invoked
               ELSE [invoked EXCEPT !.n =
                        @ (+) SetToBag({<<n.id, Callback(n)>> : n \in threads})
                          (+) SetToBag({<<c.id, "merge">> : c \in merged'})]

\* Loop iteration when the tree is completed: join the tasks and return.
LoopComplete ==
    /\ UNCHANGED <<wrapper, calls>>
    /\ pc = "loop"
    /\ val.tree # None
    /\ is_completed(val.tree[1])
    /\ JoinThreads(TRUE)
    /\ iter' = 0
    /\ failed' = (failed \/ (pc' = "idle" /\ ret'.res = "err"))
    /\ JoinInvoked

\* Loop iteration that finds an unprocessed node: add its task to the list.
LoopSpawn ==
    /\ UNCHANGED <<wrapper, calls, failed, invoked>>
    /\ pc = "loop"
    /\ val.tree # None
    /\ ~is_completed(val.tree[1])
    /\ get_unprocessed_node(threads, val.tree[1]) # None
    /\ threads' = insert(threads, get_unprocessed_node(threads, val.tree[1])[1])
    /\ iter' = 1 - iter
    /\ UNCHANGED <<pc, val, file_thread, workers, P, T, ret, merged, expect>>

\* Loop iteration that finds no node to process: join the tasks.
LoopJoin ==
    /\ UNCHANGED <<wrapper, calls>>
    /\ pc = "loop"
    /\ IF val.tree = None THEN TRUE
       ELSE /\ ~is_completed(val.tree[1])
            /\ get_unprocessed_node(threads, val.tree[1]) = None
    /\ JoinThreads(FALSE)
    /\ iter' = IF pc' = "loop" THEN 1 - iter ELSE 0
    /\ failed' = (failed \/ (pc' = "idle" /\ ret'.res = "err"))
    /\ JoinInvoked

\* The engine is dropped between two calls; its FileLinked joins the writer.
Gemla_drop ==
    /\ UNCHANGED <<wrapper, calls, failed, invoked>>
    /\ pc = "idle"
    /\ \E ws \in join_on_drop(file_thread, workers) : workers' = ws
    /\ pc' = "none"
    /\ val' = NoVal
    /\ file_thread' = FALSE
    /\ threads' = {}
    /\ ret' = Ret("drop", "ok")
    /\ UNCHANGED <<P, T, iter, merged, expect>>

Init == StoreInit

Next ==
    \/ Gemla_new
    \/ Gemla_simulate
    \/ LoopComplete
    \/ LoopSpawn
    \/ LoopJoin
    \/ Gemla_drop
    \/ WorkerRun
    \/ Crash

Spec == Init /\ [][Next]_vars

\* One iteration of the loop of simulate (the three are mutually exclusive).
LoopStep == LoopComplete \/ LoopSpawn \/ LoopJoin

\* The same engine with the scheduling the runtime gives: the thread inside
\* simulate keeps running its loop, and a writer thread keeps running.
LiveSpec ==
    /\ Init
    /\ [][Next]_vars
    /\ WF_vars(LoopStep)
    /\ WF_vars(WorkerRun)

\* ------------------------------------------------ engine over a stored tree
\* SimulationTree and GeneticNodeWrapper derive Deserialize, so
\* Gemla::new(path, config, DataFormat) with overwrite = false takes whatever
\* tree the file holds. The wrappers a stored node can hold here: not yet
\* initialized, under simulation, finished.
LoadedWrappers(id) ==
    {GeneticNodeWrapper_new(1, id),
     GeneticNodeWrapper_from(3, 1, id),
     [GeneticNodeWrapper_from(3, 1, id) EXCEPT !.state = "Finish"]}

\* The stored trees: a root with no child, a left child, a right child or both.
LoadedTrees ==
    {Tree_new(v, l, r) :
        v \in LoadedWrappers(1),
        l \in {None} \cup {Some(Tree_new(w, None, None)) : w \in LoadedWrappers(2)},
        r \in {None} \cup {Some(Tree_new(w, None, None)) : w \in LoadedWrappers(3)}}

\* The engine constructed with overwrite = false over a file that holds one
\* of the stored trees.
LoadedInit ==
    /\ pc = "idle"
    /\ \E t \in LoadedTrees, g \in 1..MaxGph :
           /\ val = Value(Some(t), GemlaConfig(g, FALSE))
           /\ P = File(Serialize(val))
           /\ ret = [Ret("Gemla_new", "ok") EXCEPT
                        !.src = "path", !.want = Value(None, GemlaConfig(g, FALSE))]
    /\ file_thread = FALSE
    /\ workers = <<>>
    /\ T = NoFile
    /\ threads = {}
    /\ iter = 0
    /\ merged = {}
    /\ expect = -1
    /\ wrapper = NoWrapper
    /\ calls = NoCalls
    /\ failed = FALSE
    /\ invoked = NoInvoked

\* A run of that engine that is not killed: calls of simulate and the writers.
LoadedNext ==
    \/ Gemla_simulate
    \/ LoopComplete
    \/ LoopSpawn
    \/ LoopJoin
    \/ WorkerRun

LoadedSpec == LoadedInit /\ [][LoadedNext]_vars

\* ------------------------------------------------------------------ claims
SimulateOk == pc = "idle" /\ ret = Ret("simulate", "ok")

\* C1: every call of simulate(steps), steps = 0 included, made in any state of
\* the engine, leaves its loop after finitely many rounds (and when it returns
\* Ok the root is in state Finish).
C1_SimulateReturns ==
    (pc = "loop") ~> (pc # "loop" /\ (SimulateOk => val.tree # None /\ is_completed(val.tree[1])))

\* C2: when simulate has returned Ok, the tree exists and every node of it is
\* in state Finish.
C2_AllFinish ==
    SimulateOk => /\ val.tree # None
                  /\ \A n \in NodesOpt(val.tree) : n.state = "Finish"

C2_Witness ==
    /\ SimulateOk
    /\ HeightOpt(val.tree) >= 2
    /\ \A n \in NodesOpt(val.tree) : n.state = "Finish"

\* C3: a simulate(steps) called on an absent or completed tree of height h
\* returns Ok with a tree of height h + steps; the height reached is also the
\* height of the tree a later Gemla::new loads from the file after a drop,
\* so that two calls add up across the reload.
C3_HeightGrows ==
    (pc = "idle" /\ expect >= 0 /\ ret.res = "ok" /\ ret.op \in {"simulate", "Gemla_new"})
        => HeightOpt(val.tree) = expect

\* The height two calls reach together (one call adds at most MaxSteps).
C3_Witness ==
    /\ SimulateOk
    /\ expect = 3
    /\ HeightOpt(val.tree) = 3

\* C3, the reload: an engine loaded from the file has the height the calls
\* before the drop reached.
C3_WitnessReload ==
    /\ pc = "idle"
    /\ ret.op = "Gemla_new"
    /\ ret.res = "ok"
    /\ expect >= 2
    /\ HeightOpt(val.tree) = expect

HasChild(t) == t.left # None \/ t.right # None

ChildrenFinish(t) ==
    /\ t.left # None => t.left[1].val.state = "Finish"
    /\ t.right # None => t.right[1].val.state = "Finish"

\* C4: a node with children that is in state Simulate, Mutate or Finish has all
\* its children in state Finish, and no task is pending for a node that has a
\* child not in state Finish.
C4_ChildrenFirst ==
    \A t \in SubtreesOpt(val.tree) :
        HasChild(t) =>
            /\ t.val.state \in {"Simulate", "Mutate", "Finish"} => ChildrenFinish(t)
            /\ contains_key(threads, t.val.id) => ChildrenFinish(t)

C4_Witness ==
    \E t \in SubtreesOpt(val.tree) :
        /\ t.left # None
        /\ t.right # None
        /\ t.val.state = "Mutate"
        /\ contains_key(threads, t.val.id)
        /\ ChildrenFinish(t)

\* C5: the user's merge is only called for a parent in state Initialize whose
\* two children are both in state Finish and both hold an individual.
C5_MergeGuard ==
    \A c \in merged :
        /\ c.parent = "Initialize"
        /\ c.left = "Finish"
        /\ c.right = "Finish"
        /\ c.lsome
        /\ c.rsome

C5_Witness ==
    /\ pc = "loop"
    /\ \E c \in merged : c.parent = "Initialize" /\ c.left = "Finish" /\ c.right = "Finish"

\* C6: once a node is in state Finish, no step of the engine changes it: the
\* same wrapper (state, individual, generation counters, id) is in the tree
\* after every step for as long as the engine lives.
C6_FinishIsFinal ==
    [][(pc \in {"idle", "loop"} /\ pc' \in {"idle", "loop"})
        => \A n \in NodesOpt(val.tree) : n.state = "Finish" => n \in NodesOpt(val'.tree)]_vars

\* A finished subtree under a new root that is being worked on.
C6_Witness ==
    /\ pc = "loop"
    /\ HeightOpt(val.tree) = 3
    /\ ~is_completed(val.tree[1])
    /\ merged # {}
    /\ \E t \in SubtreesOpt(val.tree) :
           t.left # None /\ t.right # None /\ t.val.state = "Finish"

\* C7: a store has at most one background writer running at any time.
C7_OneWriter == Cardinality(Running(workers)) <= 1

\* A writer spawned by a mutate or replace over an existing file is running.
C7_Witness ==
    /\ pc = "store"
    /\ ret.op \in {"mutate", "replace"}
    /\ ret.res = "ok"
    /\ Len(workers) = 1
    /\ workers[1].temp
    /\ workers[1].pc = "write"

StoreCallOk == pc = "store" /\ ret.op \in {"mutate", "replace"} /\ ret.res = "ok"

LoadsAs(Pf, Tf, v) == from_file(Pf, Tf).ok /\ from_file(Pf, Tf).val = v

\* C8 as stated: at any moment after a mutate or replace has returned Ok,
\* loading the path gives the value in memory.
C8_LoadEqualsMemory == StoreCallOk => LoadsAs(P, T, val)

\* C8 amended: after a mutate or replace has returned Ok and the writer the
\* call spawned has finished, loading the path gives the value in memory.
C8_LoadEqualsMemoryAfterWriter ==
    (StoreCallOk /\ Running(workers) = {}) => LoadsAs(P, T, val)

C8_Witness ==
    /\ StoreCallOk
    /\ ret.op = "mutate"
    /\ file_thread
    /\ Running(workers) = {}
    /\ val.tree # None
    /\ LoadsAs(P, T, val)

\* C9: when the process is killed at any point of a persist that started with
\* a readable P, the next load succeeds and gives the value P held before or
\* the value being written; killed between the copy and the truncation it
\* gives the value P held before.
C9_AllOrNothing ==
    \A i \in Running(workers) :
        (workers[i].temp /\ Readable(workers[i].pre)) =>
            \A k \in KillOutcomes(workers, P, T) :
                /\ from_file(k.P, k.T).ok
                /\ from_file(k.P, k.T).val
                       \in {Deserialize(workers[i].pre.data).val, workers[i].val}
                /\ workers[i].pc = "create" =>
                       from_file(k.P, k.T).val = Deserialize(workers[i].pre.data).val

\* A writer that replaces a readable P by another value has truncated P.
C9_Witness ==
    \E i \in Running(workers) :
        /\ workers[i].temp
        /\ Readable(workers[i].pre)
        /\ workers[i].pc = "write"
        /\ P = File(<<>>)
        /\ Deserialize(workers[i].pre.data).val # workers[i].val

\* C10: a load that finds P unreadable and T readable returns the value of T,
\* and leaves P with the content T had and no T.
C10_RecoverFromTemp ==
    [][(pc = "none" /\ ret'.op = "from_file" /\ ~Readable(P) /\ Readable(T))
        => /\ ret'.res = "ok"
           /\ pc' = "store"
           /\ val' = Deserialize(T.data).val
           /\ P' = File(T.data)
           /\ T' = NoFile]_vars

C10_Witness ==
    /\ pc = "store"
    /\ ret.op = "from_file"
    /\ ret.res = "ok"
    /\ ret.src = "temp"
    /\ ~T.exists
    /\ LoadsAs(P, T, val)

\* C11: a load that finds neither P nor T readable returns the error obtained
\* from P, gives no store, and leaves both files as they were.
C11_LoadFailsWithPathError ==
    [][(pc = "none" /\ ret'.op = "from_file" /\ ~Readable(P) /\ ~Readable(T))
        => /\ ret'.res = "err"
           /\ ret'.src = "path"
           /\ pc' = "none"
           /\ val' = NoVal
           /\ P' = P
           /\ T' = T]_vars

\* A failed load with both files on disk, each holding a part of a value.
C11_Witness ==
    /\ pc = "none"
    /\ ret.op = "from_file"
    /\ ret.res = "err"
    /\ ret.src = "path"
    /\ P.exists
    /\ T.exists
    /\ ~Readable(P)
    /\ ~Readable(T)

C13_NoRollback ==
    (pc = "store" /\ ret.op \in {"mutate", "replace"}) => val = ret.want

\* A mutate returned Err, and the value in memory is the changed one while P
\* holds another.
C13_Witness ==
    /\ pc = "store"
    /\ ret.op = "mutate"
    /\ ret.res = "err"
    /\ val = ret.want
    /\ Readable(P)
    /\ Deserialize(P.data).val # val

\* C14: a failure of a filesystem step of a persist reaches the caller of the
\* store operation as an error value: no store operation ends in a panic.
C14_PersistFailureIsError == ret.res \in {"none", "ok", "err"}

\* A step of Gemla::new: no store is alive before it (no other action is
\* enabled then) and the call is the one recorded.
NewStep == pc = "none" /\ ret'.op = "Gemla_new"

\* What Gemla::new leaves when it creates or overwrites the file: a store
\* holding (None, config) and a writer persisting exactly that value.
NewCreated ==
    /\ pc' = "idle"
    /\ ret'.res = "ok"
    /\ val' = Value(None, ret'.want.config)
    /\ file_thread'
    /\ workers'[Len(workers')].bytes = Serialize(val')
    /\ workers'[Len(workers')].temp = P.exists

\* C15 as stated: Gemla::new has exactly three outcomes, each with an empty
\* pending map: the file exists and overwrite is set, the store holds and
\* persists (None, config); the file exists and overwrite is not set, the
\* store holds the value loaded from the file; the file is absent, it is
\* created holding (None, config).
C15_ThreeOutcomes ==
    [][NewStep =>
          /\ threads' = {}
          /\ IF P.exists /\ ~ret'.want.config.overwrite
             THEN pc' = "idle" /\ LoadsAs(P, T, val')
             ELSE NewCreated]_vars

\* C15 amended: the three outcomes are those of a construction that returns
\* Ok; when the file exists, overwrite is not set and neither the file nor
\* its temp file can be read, Gemla::new returns the error and no engine
\* exists. In every outcome that has an engine the pending map is empty.
C15_ThreeOutcomesOrError ==
    [][NewStep =>
          /\ threads' = {}
          /\ IF P.exists /\ ~ret'.want.config.overwrite
             THEN IF Readable(P) \/ Readable(T)
                  THEN pc' = "idle" /\ ret'.res = "ok" /\ LoadsAs(P, T, val')
                  ELSE pc' = "none" /\ ret'.res = "err" /\ val' = NoVal
             ELSE NewCreated]_vars

C15_Witness ==
    /\ pc = "idle"
    /\ ret.op = "Gemla_new"
    /\ ret.res = "ok"
    /\ ~ret.want.config.overwrite
    /\ val.tree # None
    /\ val.config # ret.want.config
    /\ threads = {}

\* A step of Gemla::simulate up to its loop (no other step goes from idle to loop).
SimulateStep == pc = "idle" /\ pc' = "loop"

\* The condition under which the tree may grow, on the value a call finds.
RootAbsentOrFinish == val.tree = None \/ val.tree[1].val.state = "Finish"

\* C16: simulate(steps) adds nodes only when the call finds the tree absent or
\* its root in Finish; a call that finds a tree whose root is not Finish
\* leaves the value as it is whatever steps is, and no later step of the
\* call adds a node or changes the height.
C16_GrowthGated ==
    [][/\ (SimulateStep /\ ~RootAbsentOrFinish) => val' = val /\ workers' = workers
       /\ (pc # "none" /\ pc' # "none" /\ ~(SimulateStep /\ RootAbsentOrFinish)) =>
              /\ IdsOf(val') = IdsOf(val)
              /\ HeightOpt(val'.tree) = HeightOpt(val.tree)]_vars

C16_Witness ==
    /\ pc = "loop"
    /\ expect = -1
    /\ ret = Ret("simulate", "none")
    /\ threads = {}
    /\ val.tree # None
    /\ val.tree[1].val.state # "Finish"
    /\ HeightOpt(val.tree) >= 2

\* The number of nodes of a tree.
RECURSIVE Size(_)
Size(tree) ==
    IF tree = None THEN 0 ELSE 1 + Size(tree[1].left) + Size(tree[1].right)

\* new is old with k levels added as C17 describes: the i-th new root, for
\* i = k down to 1, is a fresh Initialize wrapper with max_generations = gph,
\* its left child is the tree with i - 1 levels added, and its right child is
\* a fresh childless Initialize wrapper with max_generations =
\* (H0 + i - 1) * gph, absent exactly when H0 + i - 1 = 0.
RECURSIVE Grown(_, _, _, _)
Grown(old, new, gph, k) ==
    IF k = 0 THEN new = old
    ELSE /\ new # None
         /\ new[1].val = GeneticNodeWrapper_new(gph, new[1].val.id)
         /\ new[1].val.id \notin {n.id : n \in NodesOpt(old)}
         /\ Grown(old, new[1].left, gph, k - 1)
         /\ IF HeightOpt(old) + k - 1 = 0
            THEN new[1].right = None
            ELSE /\ new[1].right # None
                 /\ new[1].right[1].left = None
                 /\ new[1].right[1].right = None
                 /\ new[1].right[1].val =
                        GeneticNodeWrapper_new((HeightOpt(old) + k - 1) * gph,
                                               new[1].right[1].val.id)
                 /\ new[1].right[1].val.id \notin {n.id : n \in NodesOpt(old)}

GrowthStep == SimulateStep /\ RootAbsentOrFinish /\ val'.tree # None

C19_TwoChildrenOrNone ==
    \A t \in SubtreesOpt(val.tree) : (t.left = None) <=> (t.right = None)

C19_Witness ==
    /\ pc = "loop"
    /\ threads # {}
    /\ HeightOpt(val.tree) = 3
    /\ Size(val.tree) = 5
    /\ \E t \in SubtreesOpt(val.tree) : t.left # None /\ t.right # None
    /\ \E t \in SubtreesOpt(val.tree) : t.left = None /\ t.right = None

\* simulate has returned the Err of a task whose node is, in memory, in state
\* Simulate at generation 1: the task was the first call of the user's
\* simulate on that node.
FirstSimulateFailed ==
    /\ pc = "idle"
    /\ ret.op = "simulate"
    /\ ret.res = "err"
    /\ \E n \in NodesOpt(val.tree) :
           n.id = ret.node /\ n.state = "Simulate" /\ n.generation = 1

\* C20 as stated: when the user's simulate fails on its first invocation the
\* engine's simulate returns the error, and the value on disk is the snapshot
\* in which the failing node is still the Initialize-state wrapper, or the
\* empty tree.
C20_DiskHoldsInitialize ==
    FirstSimulateFailed =>
        /\ from_file(P, T).ok
        /\ \/ from_file(P, T).val.tree = None
           \/ \E n \in NodesOpt(from_file(P, T).val.tree) :
                  n.id = ret.node /\ n.state = "Initialize"

\* C20 amended: when the user's simulate fails on its first invocation the
\* engine's simulate returns the error, and once the writer in flight has
\* finished the file holds the value in memory, the last snapshot persisted
\* before the failing call, in which the failing node is a Simulate-state
\* wrapper at generation 1 holding its payload.
C20_DiskHoldsSimulate ==
    (FirstSimulateFailed /\ Running(workers) = {}) =>
        /\ P = File(Serialize(val))
        /\ LoadsAs(P, T, val)
        /\ \E n \in NodesOpt(from_file(P, T).val.tree) :
               /\ n.id = ret.node
               /\ n.state = "Simulate"
               /\ n.generation = 1
               /\ n.node # None

C20_Witness ==
    /\ FirstSimulateFailed
    /\ Running(workers) = {}
    /\ file_thread
    /\ HeightOpt(val.tree) = 2
    /\ \E n \in NodesOpt(val.tree) : n.id = ret.node /\ n.node = Some(initialize)
    /\ LoadsAs(P, T, val)

\* A step in which simulate returns an Err out of its loop.
SimulateErrStep == pc = "loop" /\ pc' = "idle" /\ ret'.op = "simulate" /\ ret'.res = "err"

\* C21: when simulate returns the Err of a user callback (initialize,
\* simulate, mutate or merge), the tree in memory is the one the failing
\* batch found, which is the last snapshot persisted, and nothing of the
\* batch is written: no write-back and no partial merge sweep is kept and no
\* writer is started.
C21_FailedBatchDiscarded ==
    [][SimulateErrStep => val' = val /\ workers' = workers]_vars

\* The process is killed inside simulate, the file having been written
\* completely at least once.
KillInSimulate == pc = "loop" /\ ret'.op = "crash" /\ WrittenOnce

\* The snapshots the engine has persisted that a kill can leave: the value in
\* memory, which every mutate hands to a writer, and the value the file held
\* when the writer at work was started.
Snapshots ==
    {val} \cup {Deserialize(workers[i].pre.data).val : i \in Running(workers)}

\* C22, recovery: after a kill inside simulate a load of the path succeeds,
\* gives one of the snapshots the engine persisted, and every node that is
\* Finish in it has its payload.
C22_RecoversSnapshot ==
    [][KillInSimulate =>
          /\ from_file(P', T').ok
          /\ from_file(P', T').val \in Snapshots
          /\ \A n \in NodesOpt(from_file(P', T').val.tree) :
                 n.state = "Finish" => n.node # None]_vars

\* C22, the run after recovery: the simulate call that follows the load of an
\* engine killed inside simulate leaves its loop, and when it returns Ok
\* every node is Finish.
C22_RerunFinishes ==
    (pc = "loop" /\ ret.hist = "rerun") ~>
        (pc # "loop" /\ (SimulateOk => \A n \in NodesOpt(val.tree) : n.state = "Finish"))

\* C23: the user's initialize is invoked only for nodes without children: no
\* pending task holds a wrapper in state Initialize (the state in which
\* process_node calls initialize) for a node of the tree that has children,
\* in any execution, the calls after an aborted call included.
C23_InitializeOnlyLeaves ==
    \A t \in SubtreesOpt(val.tree) : \A n \in threads :
        (n.id = t.val.id /\ n.state = "Initialize") => (t.left = None /\ t.right = None)

\* The caller started with new(m), m >= 1, and no call has failed.
StartedNew ==
    /\ pc = "node"
    /\ calls.start = GeneticNodeWrapper_new(calls.start.max_generations, 1)
    /\ calls.start.max_generations >= 1
    /\ ~calls.failed
    /\ ~calls.panicked

\* C24: from new(m) with m >= 1 the calls of process_node return Simulate,
\* then Mutate and Simulate in turn m - 1 times, then Finish: call k returns
\* Finish from k = 2m on, Simulate for odd k and Mutate for even k before;
\* once Finish has been returned initialize has run once, simulate m times,
\* mutate m - 1 times, and the generation is m.
C24_LifecycleOrder ==
    StartedNew =>
        /\ \A k \in 1..Len(calls.returned) :
               calls.returned[k] = IF k >= 2 * calls.start.max_generations THEN "Finish"
                                   ELSE IF k % 2 = 1 THEN "Simulate" ELSE "Mutate"
        /\ Len(calls.returned) >= 2 * calls.start.max_generations =>
               /\ calls.initialize = 1
               /\ calls.simulate = calls.start.max_generations
               /\ calls.mutate = calls.start.max_generations - 1
               /\ wrapper.generation = calls.start.max_generations
               /\ wrapper.state = "Finish"

C24_Witness ==
    /\ StartedNew
    /\ calls.start.max_generations = 2
    /\ calls.returned = <<"Simulate", "Mutate", "Simulate", "Finish", "Finish">>
    /\ calls.simulate = 2
    /\ calls.mutate = 1

\* A call of process_node by the caller that holds the wrapper.
ProcessStep == pc = "node" /\ Len(calls'.returned) = Len(calls.returned) + 1

\* The call leaves the wrapper as it is, returns Finish and invokes no callback.
FinishNoOp ==
    /\ wrapper' = wrapper
    /\ calls'.returned[Len(calls'.returned)] = "Finish"
    /\ calls'.initialize = calls.initialize
    /\ calls'.simulate = calls.simulate
    /\ calls'.mutate = calls.mutate

\* C25 as stated: process_node on a wrapper in state Finish, with a payload or
\* without, returns Finish, invokes no callback and leaves the wrapper's
\* fields unchanged, however often it is repeated.
C25_FinishIsNoOp ==
    [][(ProcessStep /\ wrapper.state = "Finish") => FinishNoOp]_vars

\* C25 amended: process_node on a wrapper in state Finish that holds a payload
\* returns Finish, invokes no callback and leaves the wrapper's fields
\* unchanged, however often it is repeated; on a wrapper in state Finish
\* without payload it panics.
C25_FinishIsNoOpWithPayload ==
    [][(ProcessStep /\ wrapper.state = "Finish") =>
          IF wrapper.node # None THEN FinishNoOp
          ELSE calls'.panicked /\ wrapper' = wrapper]_vars

C25_Witness ==
    /\ pc = "node"
    /\ calls.start.state = "Finish"
    /\ calls.start.node = Some(1)
    /\ calls.returned = <<"Finish", "Finish", "Finish">>
    /\ wrapper = calls.start

\* Invariant I2 on the tree in memory: every node has 1 <= generation <=
\* max_generations, and a Finish node has generation >= max_generations.
I2 ==
    \A n \in NodesOpt(val.tree) :
        /\ 1 <= n.generation
        /\ n.generation <= n.max_generations
        /\ n.state = "Finish" => n.generation >= n.max_generations

\* A node of the tree that becomes Finish in a step was in state Simulate
\* before it, at the same generation.
FinishAfterSimulate ==
    \A n \in NodesOpt(val.tree) : \A f \in NodesOpt(val'.tree) :
        (f.id = n.id /\ f.state = "Finish" /\ n.state # "Finish") =>
            (n.state = "Simulate" /\ f.generation = n.generation)

\* C26: in every reachable state of the engine (generations_per_height >= 1)
\* every node has 1 <= generation <= max_generations, a node is Finish only
\* with generation >= max_generations, and a node becomes Finish only by a
\* Simulate step.
C26_GenerationBounds == []I2 /\ [][FinishAfterSimulate]_vars

C26_Witness ==
    /\ pc = "loop"
    /\ \E n \in NodesOpt(val.tree) :
           n.state = "Finish" /\ n.generation = 2 /\ n.max_generations = 2
    /\ \E n \in NodesOpt(val.tree) :
           n.state = "Mutate" /\ n.generation = 1 /\ n.max_generations = 2

\* Invariant I1 on a set of wrappers: one in state Simulate, Mutate or Finish
\* holds a payload.
I1(ns) == \A n \in ns : n.state \in {"Simulate", "Mutate", "Finish"} => n.node # None

\* C27: in every reachable state of the engine, every node in state Simulate,
\* Mutate or Finish holds a payload: in the tree in memory, in every
\* snapshot handed to a writer, in the value a load of the path gives, and in
\* the pending tasks; so no pending task reaches the panic of process_node.
C27_PayloadPresent ==
    /\ I1(NodesOpt(val.tree))
    /\ \A i \in 1..Len(workers) : I1(NodesOpt(workers[i].val.tree))
    /\ from_file(P, T).ok => I1(NodesOpt(from_file(P, T).val.tree))
    /\ I1(threads)
    /\ \A n \in threads : \A fail \in BOOLEAN : Gemla_process_node(n, fail).res # "panic"

C27_Witness ==
    /\ pc = "loop"
    /\ Cardinality(threads) = 2
    /\ Running(workers) # {}
    /\ \E n \in NodesOpt(val.tree) : n.state = "Initialize" /\ n.node = None
    /\ \E n \in NodesOpt(val.tree) : n.state = "Finish" /\ n.node # None
    /\ \E n \in threads : n.state = "Mutate" /\ n.node # None
    /\ \E n \in threads : n.state = "Simulate" /\ n.node # None

\* The payloads of the two children of every node that has two are equal.
ChildrenEqual ==
    \A t \in SubtreesOpt(val.tree) :
        (t.left # None /\ t.right # None) => t.left[1].val.node = t.right[1].val.node

\* C28: with the counter as user state (0 when initialized, + 1 by simulate,
\* unchanged by mutate, the maximum by merge), when simulate returns Ok and no
\* call of simulate has returned Err before, the payload of the root is the
\* height of the tree times generations_per_height and the two children of
\* every internal node hold equal payloads.
C28_RootPayload ==
    (SimulateOk /\ ~failed /\ val.tree # None) =>
        /\ val.tree[1].val.node =
               Some(HeightOpt(val.tree) * val.config.generations_per_height)
        /\ ChildrenEqual

C28_Witness ==
    /\ SimulateOk
    /\ ~failed
    /\ val.config.generations_per_height = 2
    /\ HeightOpt(val.tree) = 2
    /\ val.tree[1].val.node = Some(4)
    /\ val.tree[1].left[1].val.node = Some(2)
    /\ val.tree[1].right[1].val.node = Some(2)

\* The eligible nodes of a tree: not Finish, and a leaf or a node whose two
\* children are Finish.
Eligible(tree) ==
    {t.val : t \in {u \in SubtreesOpt(tree) :
        /\ u.val.state # "Finish"
        /\ \/ u.left = None /\ u.right = None
           \/ /\ u.left # None /\ u.right # None
              /\ u.left[1].val.state = "Finish" /\ u.right[1].val.state = "Finish"}}

\* The loop is about to join the tasks of a tree that is not finished: the
\* search has found no node to spawn a task for.
JoinDue ==
    /\ pc = "loop"
    /\ \/ val.tree = None
       \/ /\ ~is_completed(val.tree[1])
          /\ get_unprocessed_node(threads, val.tree[1]) = None

\* A join that changes the tree leaves, for every pending wrapper, the
\* wrapper one process_node step further in the tree.
OneStepEach ==
    (JoinDue /\ pc' \in {"loop", "idle"} /\ val' # val) =>
        \A n \in threads : Gemla_process_node(n, FALSE).node \in NodesOpt(val'.tree)

\* C29: whenever the tasks of a tree that is not finished are joined, the
\* pending wrappers are exactly the eligible nodes of the tree (the leaves
\* and the nodes with two Finish children that are not Finish themselves),
\* and the join advances each of them by one process_node step.
C29_BatchComplete ==
    /\ [](JoinDue => threads = Eligible(val.tree))
    /\ [][OneStepEach]_vars

C29_Witness ==
    /\ JoinDue
    /\ Cardinality(threads) = 2
    /\ threads = Eligible(val.tree)
    /\ \E n \in threads : n.state = "Mutate"
    /\ \E n \in threads : n.state = "Simulate"

\* A task is added to the pending map: for a node of the tree that is not
\* Finish and has no pending task, as a clone of its wrapper.
SpawnsFresh ==
    (pc = "loop" /\ threads' # threads /\ threads' # {}) =>
        \E n \in NodesOpt(val.tree) :
            /\ n.state # "Finish"
            /\ ~contains_key(threads, n.id)
            /\ threads' = threads \cup {n}

\* C30: the pending map never holds two tasks for one node id, a task is
\* spawned only for a node of the tree that is not Finish and not pending,
\* and the map is empty whenever simulate is not running (it has returned,
\* with Ok or with Err) and whenever the root is Finish.
C30_PendingMap ==
    /\ [](/\ \A a, b \in threads : a.id = b.id => a = b
          /\ \A n \in threads : n.id \in IdsOf(val)
          /\ pc # "loop" => threads = {}
          /\ (val.tree # None /\ val.tree[1].val.state = "Finish") => threads = {})
    /\ [][SpawnsFresh]_vars

C30_Witness ==
    /\ pc = "idle"
    /\ ret.op = "simulate"
    /\ ret.res = "err"
    /\ ret.node # 0
    /\ threads = {}
    /\ HeightOpt(val.tree) = 2
    /\ Cardinality(Eligible(val.tree)) = 2

\* The shape of a tree with the ids at their places.
RECURSIVE Skeleton(_)
Skeleton(tree) ==
    IF tree = None THEN None
    ELSE Some([id |-> tree[1].val.id, left |-> Skeleton(tree[1].left),
               right |-> Skeleton(tree[1].right)])

\* Results a join could hand to the write-back: up to two wrappers, with ids
\* of nodes of the tree or of none.
SampleResults ==
    LET ws == {[GeneticNodeWrapper_from(7, 1, i) EXCEPT !.state = "Mutate"] : i \in 1..6}
    IN  {<<>>} \cup {<<a>> : a \in ws} \cup {<<a, b>> : a, b \in ws}

\* replace_nodes(t, nodes) keeps the child links, puts at every node whose id
\* is the id of a result the first such result, leaves every other node as
\* it was, and hands back the results whose id is the id of no node, which
\* are in the tree nowhere.
WriteBackFrame(t, nodes) ==
    LET r == replace_nodes(t, nodes)
        ids == {n.id : n \in Nodes(t)}
        First(id) == nodes[CHOOSE i \in 1..Len(nodes) :
                        nodes[i].id = id /\ \A k \in 1..(i - 1) : nodes[k].id # id]
    IN  /\ Skeleton(Some(r.tree)) = Skeleton(Some(t))
        /\ \A n \in Nodes(r.tree) :
               IF \E i \in 1..Len(nodes) : nodes[i].id = n.id
               THEN n = First(n.id)
               ELSE n \in Nodes(t)
        /\ \A i \in 1..Len(nodes) :
               nodes[i].id \notin ids =>
                   (\E k \in 1..Len(r.nodes) : r.nodes[k] = nodes[i]) /\ nodes[i] \notin Nodes(r.tree)

\* The frame of the write-back on the tree in memory, for the results of the
\* pending tasks and for the sample results.
WriteBackFrames ==
    (pc = "loop" /\ val.tree # None) =>
        /\ \A nodes \in SampleResults : WriteBackFrame(val.tree[1], nodes)
        /\ \A order \in Orders(threads) :
               WriteBackFrame(val.tree[1],
                   [i \in 1..Len(order) |-> Gemla_process_node(order[i], FALSE).node])

\* A step of the loop between the spawn of a task and the join.
WhilePending == pc = "loop" /\ threads # {} /\ pc' = "loop" /\ threads' # {}

\* C31 as stated: the write-back replaces exactly the nodes whose id is the
\* id of a returned wrapper, keeps the shape, the other nodes and the Config,
\* and drops a wrapper whose id is the id of no node; between the spawn of a
\* task and the write-back neither the tree in memory nor the file is
\* modified.
C31_WriteBackFrame ==
    /\ []WriteBackFrames
    /\ [][/\ pc = "loop" /\ val' # NoVal => val'.config = val.config
          /\ WhilePending => val' = val /\ P' = P /\ T' = T]_vars

\* C31 amended: the same frame of the write-back; between the spawn of a task
\* and the write-back the tree in memory is not modified and no persist is
\* started, while the writer of the snapshot persisted last may still be
\* writing the file: the file is unchanged only once that writer has ended.
C31_WriteBackFrameWriterRuns ==
    /\ []WriteBackFrames
    /\ [][/\ pc = "loop" /\ val' # NoVal => val'.config = val.config
          /\ WhilePending =>
             /\ val' = val
             /\ Len(workers') = Len(workers)
             /\ file_thread' = file_thread
             /\ Running(workers) = {} => P' = P /\ T' = T]_vars

C31_Witness ==
    /\ pc = "loop"
    /\ Cardinality(threads) = 2
    /\ Running(workers) # {}
    /\ HeightOpt(val.tree) = 3
    /\ \E nodes \in SampleResults :
           /\ Len(nodes) = 2
           /\ nodes[1].id \in IdsOf(val)
           /\ nodes[2].id \notin IdsOf(val)
           /\ replace_nodes(val.tree[1], nodes).nodes = <<nodes[2]>>
           /\ nodes[1] \in Nodes(replace_nodes(val.tree[1], nodes).tree)

\* A node with exactly one child, and that child.
SingleChild(u) == (u.left = None) # (u.right = None)

OnlyChild(u) == IF u.left # None THEN u.left[1] ELSE u.right[1]

\* A join inside simulate that wrote its results back and persisted the tree.
WroteBack == pc = "loop" /\ Len(workers') > Len(workers)

\* The node u of the tree after a step was in state Initialize before it, has
\* one child only, and that child is Finish with a payload.
CopyDue(u, before) ==
    /\ SingleChild(u)
    /\ OnlyChild(u).val.state = "Finish"
    /\ OnlyChild(u).val.node # None
    /\ \E w \in NodesOpt(before) : w.id = u.val.id /\ w.state = "Initialize"

\* C32: when a join leaves an Initialize-state node with exactly one child
\* (left only, or right only) that is Finish, its merge sweep installs a copy
\* of that child's payload into the parent, which then has state Simulate,
\* generation 1 and its own id and max_generations.
C32_SingleChildCopy ==
    [][WroteBack =>
         \A u \in SubtreesOpt(val'.tree) :
            CopyDue(u, val.tree) =>
                \E w \in NodesOpt(val.tree) :
                    /\ w.id = u.val.id
                    /\ u.val = [node |-> OnlyChild(u).val.node, state |-> "Simulate",
                                generation |-> 1, max_generations |-> w.max_generations,
                                id |-> w.id]]_vars

\* The same for a right child only.
C32_RightChildCopy ==
    [][WroteBack =>
         \A u \in SubtreesOpt(val'.tree) :
            (CopyDue(u, val.tree) /\ u.left = None) =>
                \E w \in NodesOpt(val.tree) :
                    /\ w.id = u.val.id
                    /\ u.val = [node |-> OnlyChild(u).val.node, state |-> "Simulate",
                                generation |-> 1, max_generations |-> w.max_generations,
                                id |-> w.id]]_vars

\* The loop of simulate has nothing to do and cannot leave: the tree is not
\* finished, the search finds no node, and no task is pending, so that
\* join_threads changes nothing.
Stuck ==
    /\ pc = "loop"
    /\ val.tree # None
    /\ ~is_completed(val.tree[1])
    /\ threads = {}
    /\ get_unprocessed_node(threads, val.tree[1]) = None

\* The second half of C32: a node with one child can be advanced, so that
\* the loop is never left with nothing to do.
C32_ParentAdvanced == ~Stuck

\* A right-only parent that holds the copy of its child and is stuck.
C32_RightCopiedStuck ==
    /\ Stuck
    /\ val.tree[1].left = None
    /\ val.tree[1].right # None
    /\ val.tree[1].val.state = "Simulate"
    /\ val.tree[1].val.node = val.tree[1].right[1].val.node
    /\ P = File(Serialize(val))

\* The trees a merge sweep can be given: the tree in memory, and that tree
\* with the results of the pending tasks written back.
SweepInputs ==
    IF val.tree = None THEN {}
    ELSE {val.tree[1]} \cup
         {replace_nodes(val.tree[1],
              [i \in 1..Len(order) |-> Gemla_process_node(order[i], FALSE).node]).tree :
          order \in Orders(threads)}

\* The payload the sweep computes for a parent from its children.
SweptPayload(u) ==
    IF u.left # None /\ u.right # None
    THEN Some(merge(u.left[1].val.node[1], u.right[1].val.node[1]))
    ELSE OnlyChild(u).val.node

\* A second sweep changes nothing; a sweep keeps the shape, and a node it
\* changes was in state Initialize over children that are all Finish and
\* becomes the from() wrapper of a payload computed from the children's
\* payloads alone (by merge or by copy), in state Simulate.
SweepFrame(t) ==
    LET m == merge_completed_nodes(t, 0).tree IN
    /\ merge_completed_nodes(m, 0).tree = m
    /\ Skeleton(Some(m)) = Skeleton(Some(t))
    /\ \A u \in Subtrees(t) : \A w \in Subtrees(m) :
           (u.val.id = w.val.id /\ w.val # u.val) =>
               /\ u.val.state = "Initialize"
               /\ u.left # None \/ u.right # None
               /\ u.left # None => u.left[1].val.state = "Finish"
               /\ u.right # None => u.right[1].val.state = "Finish"
               /\ w.left = u.left /\ w.right = u.right
               /\ w.val = [node |-> SweptPayload(u), state |-> "Simulate", generation |-> 1,
                           max_generations |-> u.val.max_generations, id |-> u.val.id]

\* C33: the merge sweep is idempotent (applied twice to any tree it gives the
\* same tree as applied once), it changes only Initialize-state nodes whose
\* children are Finish, to state Simulate, and it computes their payload from
\* the children's payloads without initialize, simulate or mutate.
C33_SweepIdempotent == \A t \in SweepInputs : SweepFrame(t)

C33_Witness ==
    /\ pc = "loop"
    /\ Cardinality(threads) = 2
    /\ HeightOpt(val.tree) = 3
    /\ merge_completed_nodes(val.tree[1], 0).tree = val.tree[1]
    /\ \E t \in SweepInputs : merge_completed_nodes(t, 0).calls # {}

\* A join inside simulate whose write-back and merge sweep both succeeded.
SweptOk == WroteBack /\ ~(pc' = "idle" /\ ret'.res = "err")

\* The node u of the tree after a join is the parent of the merge call c as
\* the sweep had to leave it: among the trees given to the sweep (inputs)
\* there is one where that parent, in state Initialize, has the same id, the
\* same max_generations and the same two children as u.
InstalledOver(u, c, inputs) ==
    /\ u.val.id = c.id
    /\ u.left # None /\ u.right # None
    /\ u.val.state = "Simulate"
    /\ u.val.generation = 1
    /\ u.val.node = Some(merge(u.left[1].val.node[1], u.right[1].val.node[1]))
    /\ \E t \in inputs : \E x \in Subtrees(t) :
           /\ x.val.state = "Initialize"
           /\ x.val.id = u.val.id
           /\ x.val.max_generations = u.val.max_generations
           /\ x.left = u.left
           /\ x.right = u.right

\* C34: after the merge of two finished children the parent has the same id
\* and the same max_generations as before, the merge result as payload,
\* state Simulate and generation 1, and the two children are as they were.
C34_MergeKeepsIdentity ==
    [][SweptOk => \A c \in merged' : \E u \in SubtreesOpt(val'.tree) : InstalledOver(u, c, SweepInputs)]_vars

C34_Witness ==
    /\ pc = "loop"
    /\ HeightOpt(val.tree) = 3
    /\ \E c \in merged : \E u \in SubtreesOpt(val.tree) :
           /\ u.val.id = c.id /\ u.val.id # val.tree[1].val.id
           /\ u.val = GeneticNodeWrapper_from(
                          merge(u.left[1].val.node[1], u.right[1].val.node[1]),
                          u.val.max_generations, c.id)
           /\ u.left[1].val.state = "Finish" /\ u.right[1].val.state = "Finish"

\* The temp file comes into being or changes in a step.
TempWritten == T' # T /\ T'.exists

\* The writer that takes the step, if the step is one of a writer.
Stepping(i) ==
    i \in Running(workers) /\ i <= Len(workers') /\ workers'[i] # workers[i]

\* C35: in an execution without a kill, whenever no writer is running (after
\* each join and after drop) the temp file T does not exist; T is created
\* only by a writer copying an existing P, and a writer of a persist that
\* started with P absent never creates T.
C35_TempOnlyInFlight ==
    /\ [](Running(workers) = {} => ~T.exists)
    /\ [][/\ TempWritten =>
                /\ P.exists /\ T'.data = P.data /\ P' = P
                /\ \E i \in 1..Len(workers) : Stepping(i) /\ workers[i].pre.exists
          /\ \A i \in 1..Len(workers) :
                (Stepping(i) /\ ~workers[i].pre.exists) => T' = T /\ ~T.exists]_vars

\* A second persist has ended: its writer copied P to T and removed T.
C35_Witness ==
    /\ pc = "store"
    /\ Running(workers) = {}
    /\ file_thread
    /\ workers[Len(workers)].pc = "done"
    /\ workers[Len(workers)].temp
    /\ workers[Len(workers)].pre.exists
    /\ P = File(workers[Len(workers)].bytes)
    /\ ~T.exists

\* C36: no two nodes that are pending at the same time are in an
\* ancestor-descendant relation: below a pending node of the tree no other
\* node is pending.
C36_BatchIndependent ==
    \A u \in SubtreesOpt(val.tree) : \A a, b \in threads :
        (a.id = u.val.id /\ b.id # a.id) => b.id \notin {n.id : n \in Nodes(u)}

\* Two tasks pending at two depths of a tree of height 3: the right child of
\* the root and a grandchild on the left.
C36_Witness ==
    /\ pc = "loop"
    /\ HeightOpt(val.tree) = 3
    /\ \E a, b \in threads :
           /\ a.id = val.tree[1].right[1].val.id
           /\ b.id \in {n.id : n \in Nodes(val.tree[1].left[1])}
           /\ b.id # val.tree[1].left[1].val.id

\* The results of the pending tasks, none failing, as collected in an order.
Collected(order) == [i \in 1..Len(order) |-> Gemla_process_node(order[i], FALSE).node]

\* The tree a join leaves when the results come in that order and no merge
\* fails: write-back, then merge sweep.
JoinOutcome(order) ==
    merge_completed_nodes(replace_nodes(val.tree[1], Collected(order)).tree, 0).tree

\* Every order of the pending tasks gives the same tree, and no result is
\* left over.
OrdersAgree ==
    (pc = "loop" /\ val.tree # None) =>
        \A o1, o2 \in Orders(threads) :
            /\ JoinOutcome(o1) = JoinOutcome(o2)
            /\ replace_nodes(val.tree[1], Collected(o1)).nodes = <<>>

\* C37: with deterministic callbacks that do not fail, the tree a join
\* leaves in memory and the snapshot it hands to the writer do not depend on
\* the order in which the results of the batch are collected: every order
\* gives the tree that the join installs and persists, so that the tree when
\* simulate returns is the same for every order.
C37_OrderIndependent ==
    /\ []OrdersAgree
    /\ [][SweptOk =>
             /\ \A o \in Orders(threads) : val'.tree = Some(JoinOutcome(o))
             /\ workers'[Len(workers')].bytes = Serialize(val')
             /\ workers'[Len(workers')].val = val']_vars

\* A batch of two tasks with different results is about to be joined.
C37_Witness ==
    /\ JoinDue
    /\ HeightOpt(val.tree) = 3
    /\ Cardinality(threads) = 2
    /\ \E o1, o2 \in Orders(threads) :
           /\ Collected(o1) # Collected(o2)
           /\ Collected(o1)[1].state # Collected(o1)[2].state

\* How often the callback cb has been invoked on the node id.
Invoked(id, cb) == CopiesIn(<<id, cb>>, invoked.n)

\* The calls made so far on the node at the root of u, by the state it is in:
\* initialize once it has left Initialize, for a node without children only;
\* merge once it has left Initialize, for a node with two children only;
\* simulate once per generation begun, max_generations times at Finish.
CallsAsDue(u) ==
    LET n == u.val
        leaf == u.left = None /\ u.right = None
        two == u.left # None /\ u.right # None
    IN  /\ Invoked(n.id, "initialize") = IF leaf /\ n.state # "Initialize" THEN 1 ELSE 0
        /\ Invoked(n.id, "merge") = IF two /\ n.state # "Initialize" THEN 1 ELSE 0
        /\ Invoked(n.id, "simulate") =
               CASE n.state = "Initialize" -> 0
                 [] n.state = "Simulate" -> n.generation - 1
                 [] n.state = "Mutate" -> n.generation
                 [] n.state = "Finish" -> n.max_generations

\* C38: in a run without a kill in which no callback fails, over the whole
\* life of the tree merge is invoked exactly once for each node with two
\* children (and never for another), initialize exactly once for each node
\* without children (and never for another), and simulate exactly
\* max_generations times for a node by the time it is Finish, and never more
\* before; so when simulate returns every node has had exactly these calls.
C38_CallbackCounts ==
    (invoked.ok /\ pc \in {"idle", "loop"}) =>
        /\ \A u \in SubtreesOpt(val.tree) :
               /\ CallsAsDue(u)
               /\ Invoked(u.val.id, "simulate") <= u.val.max_generations
        /\ BagToSet(invoked.n) \subseteq
               {<<n.id, cb>> : n \in NodesOpt(val.tree),
                               cb \in {"initialize", "simulate", "mutate", "merge"}}

\* simulate has returned Ok on a tree of height 3 with every count reached:
\* the root merged once, its right child initialized once, simulated twice
\* and mutated once.
C38_Witness ==
    /\ invoked.ok
    /\ SimulateOk
    /\ HeightOpt(val.tree) = 3
    /\ \E u \in {val.tree[1]} :
           /\ Invoked(u.val.id, "merge") = 1
           /\ Invoked(u.val.id, "initialize") = 0
           /\ Invoked(u.val.id, "simulate") = u.val.max_generations
           /\ Invoked(u.right[1].val.id, "initialize") = 1
           /\ Invoked(u.right[1].val.id, "merge") = 0
           /\ Invoked(u.right[1].val.id, "simulate") = 2
           /\ Invoked(u.right[1].val.id, "mutate") = 1

\* The process is killed in this step.
KillStep == pc # "none" /\ ret'.op = "crash"

\* A writer of a persist that found no file at the path is at work.
FirstWrite == \E i \in Running(workers) : ~workers[i].pre.exists

\* A load from the path: FileLinked::from_file, or Gemla::new with
\* overwrite = false over an existing file.
LoadStep ==
    /\ pc = "none"
    /\ P.exists
    /\ \/ ret'.op = "from_file"
       \/ ret'.op = "Gemla_new" /\ ~ret'.want.config.overwrite

\* C39: a persist that starts with P absent makes no temp copy, so a kill
\* during it leaves no temp file; a load (engine construction with
\* overwrite = false included) that finds P unreadable and no temp file
\* returns an error and changes nothing; a kill at any time after the path
\* has been written completely once (no writer at work, or a writer that
\* found a readable P) leaves a readable P or a readable temp file.
C39_FirstWriteUnprotected ==
    [][/\ (KillStep /\ FirstWrite) => ~T'.exists /\ T = T'
       /\ (LoadStep /\ ~Readable(P) /\ ~T.exists) =>
              ret'.res = "err" /\ pc' = "none" /\ P' = P /\ T' = T
       /\ (KillStep /\ WrittenOnce) => Readable(P') \/ Readable(T')]_vars

\* The load after a kill during the first write has returned an error.
C39_Witness ==
    /\ pc = "none"
    /\ ret.op \in {"from_file", "Gemla_new"}
    /\ ret.res = "err"
    /\ ret.src = "path"
    /\ P.exists
    /\ ~Readable(P)
    /\ ~T.exists

\* A successful Gemla::new that took the value from the file or the temp file.
LoadedStep == NewStep /\ ret'.res = "ok" /\ ret'.src # "none"

\* C40: no step of simulate (growth, write-back, merge sweep) changes the
\* Config of the stored value; an engine constructed with overwrite = false
\* over an existing file holds the Config stored in the file, whatever was
\* passed to the constructor; and growth sizes the new root by the
\* generations_per_height of the Config the engine holds.
C40_ConfigFrame ==
    [][/\ (pc \in {"idle", "loop"} /\ pc' \in {"idle", "loop"}) => val'.config = val.config
       /\ LoadedStep =>
              /\ ~ret'.want.config.overwrite
              /\ val' = Deserialize(P'.data).val
              /\ val'.config = Deserialize((IF ret'.src = "path" THEN P ELSE T).data).val.config
       /\ (GrowthStep /\ val' # val) =>
              val'.tree[1].val.max_generations = val.config.generations_per_height]_vars

\* An engine constructed over a file with a finished tree, with a
\* generations_per_height other than the stored one; the next simulate grows.
C40_Witness ==
    /\ pc = "idle"
    /\ ret.op = "Gemla_new"
    /\ ret.res = "ok"
    /\ ret.src = "path"
    /\ val.tree # None
    /\ is_completed(val.tree[1])
    /\ val.config.generations_per_height # ret.want.config.generations_per_height
    /\ val.config = Deserialize(P.data).val.config

====
